---- MODULE Spec2Model ----
(***************************************************************************)
(* Return-sweep ("pang") detector of easy-seeso.js (class PangDetector)    *)
(* together with the circular gaze buffer that Game._onGaze fills          *)
(* (game source, src/unnamed/part_000).                                    *)
(*                                                                         *)
(* Numbers.  Gaze coordinates and timestamps are integers (px, ms).        *)
(* The smoothed X  0.5*x0 + 0.3*x1 + 0.2*x2  is kept multiplied by 10      *)
(* (5*x0 + 3*x1 + 2*x2), which preserves every comparison the code makes   *)
(* between smoothed values.  A velocity is an exact fraction [n, d] with   *)
(* d > 0 in lowest terms; comparisons cross-multiply.  The depth           *)
(* threshold -0.4 is the fraction -2/5.                                    *)
(***************************************************************************)
EXTENDS Integers, Sequences, FiniteSets, TLC

(***************************************************************************)
(* Bounds of the model.                                                    *)
(***************************************************************************)
BufSize == 3          \* capacity of the circular buffer in the model
MaxSamples == 5       \* gaze samples delivered in one behaviour
MaxLocks == 1         \* lockLayout() calls in one behaviour
MaxResets == 1        \* reset() calls (either caller) in one hit-test behaviour
MaxYMoves == 1        \* changes of gaze Y between consecutive samples
MaxSamplesTwin == 7   \* the same three bounds in the specification that
MaxLocksTwin == 2     \*   runs a freshly constructed twin beside the detector
MaxResetsTwin == 2
ScriptLen == 65       \* samples of the scripted reading scenario
MaxSamplesSweep == 6  \* gaze samples of one leftward drift
MaxPassages == 2      \* passages of one game in the screen-flow specification
MaxSamplesGame == 7   \*   its gaze samples, layout locks and detector resets
MaxLocksGame == 3
MaxResetsGame == 5

(***************************************************************************)
(* Program constants.                                                      *)
(***************************************************************************)
COOLDOWN_MS == 500    \* easy-seeso.js:410
CASCADE_MS == 600     \* easy-seeso.js:413
NoLine == -1          \* stands for _currentLine === null (easy-seeso.js:314)

(***************************************************************************)
(* Input alphabets.                                                        *)
(***************************************************************************)
XS == {20, 500}                         \* gaze x (px)
YS == {100, 140, 180, 300}              \* gaze y (px): on line 0, 1, 2, below all
DTS == {50, 500}                        \* ms between consecutive samples
PERF == {1, 700}                        \* values of performance.now() at lock
LAYOUTS == { [ys |-> <<100, 140, 180>>, half |-> 15] }

\* the alphabet of the runs with the twin detector
XS_TWIN == {20, 500}
YS_TWIN == {140}
DTS_TWIN == {500}

\* sample spacing of the runs over several content blocks
DTS_BLOCK == {50, 500}

\* performance.now() at a lock that precedes the first sample; the scripted
\* scenario's deviation of gaze Y from the line centre
PERF_SCRIPT == {1, 1500}
YJITTER == {0, 5}

\* the alphabet of the runs with repeated and backward timestamps
XS_CLOCK == {20, 500}
YS_CLOCK == {140}
DTS_CLOCK == {-50, 0, 500}

\* the alphabet of the leftward drifts: the gaze decelerates and
\* accelerates without turning back
XS_SWEEP == {20, 280, 300, 500}
YS_SWEEP == {140, 180}
DTS_SWEEP == {20, 500}

\* a layout with lineHalfH = 0.55 * 40: adjacent bands overlap by 4 px; gaze y
\* on the centres, in the overlaps and below all
LAYOUTS_OVERLAP == { [ys |-> <<100, 140, 180>>, half |-> 22] }
XS_OVERLAP == {500}
YS_OVERLAP == {100, 120, 140, 160, 180, 300}
DTS_OVERLAP == {50}

\* the line hit-test alphabet: band edges of line 0, a gap, line 1, below all
XS_LINE == {500}
YS_LINE == {84, 85, 115, 116, 140, 300}
DTS_LINE == {50}

Abs(a) == IF a < 0 THEN -a ELSE a

RECURSIVE Gcd(_, _)
Gcd(a, b) == IF b = 0 THEN a ELSE Gcd(b, a % b)

\* the fraction n/d (d > 0) in lowest terms
Frac(n, d) ==
    LET g == Gcd(Abs(n), d) IN [n |-> n \div g, d |-> d \div g]

Zero == [n |-> 0, d |-> 1]
FLt(a, b) == a.n * b.d < b.n * a.d
FGe(a, b) == ~FLt(a, b)

\* the literal -0.4 of  vx1 < -0.4
DepthThreshold == [n |-> -2, d |-> 5]

\* a velocity that is also computed over a negative time delta
VelocityAnyDelta(dx, dt) ==
    IF dt > 0 THEN Frac(dx, dt) ELSE IF dt < 0 THEN Frac(-dx, -dt) ELSE Zero

\* vx = dt > 0 ? dx / dt : 0.0
Velocity(dx, dt) == IF dt > 0 THEN Frac(dx, dt) ELSE Zero

\* 10 * (x0 * 0.5 + x1 * 0.3 + x2 * 0.2)
SmoothX(x0, x1, x2) == 5 * x0 + 3 * x1 + 2 * x2

VARIABLES
    gx, gy, gt,       \* Game._gx, _gy, _gt : the three parallel arrays
    gIdx, gCount,     \* Game._gIdx (next write slot), Game._gCount
    det,              \* the PangDetector's fields
    clock,            \* timestamp of the newest sample delivered (Date.now())
    calls,            \* onPang invocations since the last lockLayout()/reset()
    last,             \* the last operation: its name, the onPang invocations it
                      \* made, whether it found a valley, whether it declared a peak
    peaks,            \* peak timestamps declared since the last lockLayout()/reset()
    twin, twinCalls,  \* a detector constructed anew over the same arrays at the
                      \* last reset(), given every later operation, and its calls
    prevY, nMoves,    \* gaze Y of the newest sample; Y changes so far
    pushes,           \* samples written since the cursors were last set to 0
    fires,            \* onPang invocations since construction
    written,          \* buffer slots written since the cursors were last set to 0
    nSamples, nLocks, nResets,
    state,            \* Game.state
    tracking,         \* seesoMgr.startTracking() has registered Game._onGaze
    startTimer,       \* the pending setTimeout that leads to _startReading():
                      \* "none", "calibration" (800 ms) or "answer" (1500 ms)
    layoutTimer,      \* the 150 ms setTimeout of _initReading is pending
    spans,            \* #reading-text holds the word spans of _initReading
    lineEls,          \* Game._lineEls as the opacities of the cached line
                      \* elements; << >> is null
    passageIndex,     \* Game.passageIndex
    mgr,              \* the fields of the SeesoManager
    sdk,              \* what the SDK and the browser hold for the manager:
                      \* EasySeeso instances made, pending init callbacks and
                      \* timeouts, pending startTracking promises, restart runs
                      \* in progress, pending restart timers
    mlast,            \* the last manager step: its name, return value, whether
                      \* it called into the SDK
    gstart,           \* Game.start(): where it stands
    stress            \* the variables of MemoryStressTester and its timers

vars == <<gx, gy, gt, gIdx, gCount, det, clock, calls, last, peaks,
          twin, twinCalls, prevY, nMoves, pushes, fires, written,
          nSamples, nLocks, nResets,
         state, tracking, startTimer, layoutTimer, spans, lineEls,
         passageIndex, mgr, sdk, mlast, gstart, stress>>

\* the fields of Game that only the screen flow touches
gameVars == <<state, tracking, startTimer, layoutTimer, spans, lineEls,
              passageIndex>>

\* the SeesoManager with its SDK, and the stress tester
mgrVars == <<mgr, sdk, mlast, gstart>>
restVars == <<mgrVars, stress>>

\* the buffer, the detector and what is recorded about them
detVars == <<gx, gy, gt, gIdx, gCount, det, clock, calls, last, peaks,
             twin, twinCalls, prevY, nMoves, pushes, fires, written,
             nSamples, nLocks, nResets>>

\* the fields as the constructor leaves them
NewDetector ==
    [ sx1 |-> 0, sx2 |-> 0, vx2 |-> Zero,
      lastPeakTime |-> 0, lastTriggerTime |-> 0, maxLineReached |-> -1,
      firstContentTime |-> 0,
      hasLineYs |-> FALSE, lineYs |-> << >>, lineHalf |-> 0, lineCount |-> 0,
      currentLine |-> NoLine, lastLineChangeT |-> 0 ]

\* a lockLayout() without  this._maxLineReached = -1
lockLayoutKeepsMax(d, lineYs, lineHalfH, perfNow) ==
    [ d EXCEPT
        !.hasLineYs = TRUE, !.lineYs = lineYs, !.lineHalf = lineHalfH,
        !.lineCount = Len(lineYs),
        !.firstContentTime = perfNow,
        !.currentLine = NoLine,
        !.lastLineChangeT = 0,
        !.lastPeakTime = 0,
        !.lastTriggerTime = 0,
        !.sx1 = 0, !.sx2 = 0, !.vx2 = Zero ]

lockLayout(d, lineYs, lineHalfH, perfNow) ==
    [ d EXCEPT
        !.hasLineYs = TRUE, !.lineYs = lineYs, !.lineHalf = lineHalfH,
        !.lineCount = Len(lineYs),
        !.firstContentTime = perfNow,
        !.maxLineReached = -1,
        !.currentLine = NoLine,
        !.lastLineChangeT = 0,
        !.lastPeakTime = 0,
        !.lastTriggerTime = 0,
        !.sx1 = 0, !.sx2 = 0, !.vx2 = Zero ]

\* a reset() that drops the layout and forgets the detector state
resetLayoutOnly(d) ==
    [ d EXCEPT !.hasLineYs = FALSE, !.lineYs = << >>, !.lineCount = 0 ]

\* a reset() without  this._maxLineReached = -1
resetKeepsMax(d) ==
    [ d EXCEPT
        !.sx1 = 0, !.sx2 = 0, !.vx2 = Zero,
        !.lastPeakTime = 0,
        !.lastTriggerTime = 0,
        !.firstContentTime = 0,
        !.currentLine = NoLine,
        !.lastLineChangeT = 0,
        !.hasLineYs = FALSE, !.lineYs = << >>,
        !.lineCount = 0 ]

reset(d) ==
    [ d EXCEPT
        !.sx1 = 0, !.sx2 = 0, !.vx2 = Zero,
        !.lastPeakTime = 0,
        !.lastTriggerTime = 0,
        !.maxLineReached = -1,
        !.firstContentTime = 0,
        !.currentLine = NoLine,
        !.lastLineChangeT = 0,
        !.hasLineYs = FALSE, !.lineYs = << >>,
        !.lineCount = 0 ]

\* indices of the line bands that contain gazeY
Hits(d, gazeY) ==
    { i \in 1..d.lineCount :
        gazeY >= d.lineYs[i] - d.lineHalf /\ gazeY <= d.lineYs[i] + d.lineHalf }

\* the last matching band instead of the first
MaxOf(S) == CHOOSE m \in S : \A k \in S : m >= k

Min(S) == CHOOSE m \in S : \A k \in S : m <= k

\* a hit-test that clears the line on a miss
updateLineClearOnMiss(d, gazeY, t) ==
    IF ~d.hasLineYs \/ d.lineCount = 0 THEN d
    ELSE IF Hits(d, gazeY) = {} THEN [d EXCEPT !.currentLine = NoLine]
    ELSE LET i == Min(Hits(d, gazeY)) - 1 IN
         IF i # d.currentLine
         THEN [d EXCEPT !.currentLine = i, !.lastLineChangeT = t]
         ELSE d

\* line indices are 0-based in the code, sequences 1-based here
updateLineFromGaze(d, gazeY, t) ==
    IF ~d.hasLineYs \/ d.lineCount = 0 THEN d
    ELSE IF Hits(d, gazeY) = {} THEN d
    ELSE LET i == Min(Hits(d, gazeY)) - 1 IN
         IF i # d.currentLine
         THEN [d EXCEPT !.currentLine = i, !.lastLineChangeT = t]
         ELSE d

\* a geometric peak that needs no descent after it
IsPosPeakFlat(sx0, sx1, sx2) == (sx1 >= sx2) /\ (sx1 >= sx0)

\* condition A: geometric peak, plateau tolerated before it
IsPosPeak(sx0, sx1, sx2) == (sx1 >= sx2) /\ (sx1 > sx0)

\* condition B: velocity zero crossing
IsVelZeroCross(vx0, vx1) == FGe(vx1, Zero) /\ FLt(vx0, Zero)

\* V shape: vx2 > vx1 < vx0
IsVelValley(vx0, vx1, vx2) == FLt(vx1, vx2) /\ FLt(vx1, vx0)

\* a depth test that admits every leftward velocity
IsDeepEnoughAny(vx1) == FLt(vx1, Zero)

\* depth: vx1 < -0.4
IsDeepEnough(vx1) == FLt(vx1, DepthThreshold)

\* the content-start gate without the comparison with now
ContentStartedNonZero(d, now) == d.firstContentTime # 0

\* the content-start gate with > written for <
ContentStartedInverted(d, now) == d.firstContentTime # 0 /\ now <= d.firstContentTime

\* passes  if (!this._firstContentTime || now < this._firstContentTime) return;
ContentStarted(d, now) == d.firstContentTime # 0 /\ now >= d.firstContentTime

\* no cooldown
CooldownOff(d, now) == TRUE

\* the cooldown with 50 written for 500
CooldownShort(d, now) == ~(now - d.lastTriggerTime < 50)

\* passes  if (now - this._lastTriggerTime < 500) return;
CooldownElapsed(d, now) == ~(now - d.lastTriggerTime < COOLDOWN_MS)

\* passes  if (Math.abs(t1 - this._lastPeakTime) >= 600) return;
InCascadeWindow(d, t1) == ~(Abs(t1 - d.lastPeakTime) >= CASCADE_MS)

\* the line guard without  if (line === 0) return;
LineKnown(d) == d.currentLine # NoLine

\* passes  if (line === null || line === undefined) return;  if (line === 0) return;
LineKnownNotFirst(d) == d.currentLine # NoLine /\ d.currentLine # 0

\* the monotonic guard with < written for <=
LineAdvancedOrSame(d) == ~(d.currentLine < d.maxLineReached)

\* passes  if (line <= this._maxLineReached) return;
LineAdvanced(d) == ~(d.currentLine <= d.maxLineReached)

\* a FIRE block without  this._lastPeakTime = 0.0
FireKeepsPeak(d, now) ==
    [ d EXCEPT
        !.lastTriggerTime = now,
        !.maxLineReached = d.currentLine ]

\* the assignments of the FIRE block
Fire(d, now) ==
    [ d EXCEPT
        !.lastTriggerTime = now,
        !.maxLineReached = d.currentLine,
        !.lastPeakTime = 0 ]

\* targetLine without the - 1
TargetLineSame(line) == line

\* targetLine = line - 1
TargetLine(line) == line - 1

NoCall == << >>

\* a history test that admits two samples
TooFewSamplesTwo(cnt) == cnt < 2

\* if (gCount < 3) return;
TooFewSamples(cnt) == cnt < 3

(***************************************************************************)
(* process(gIdx, gCount) over the arrays bx, by, bt.  The result holds the *)
(* detector after the call, the onPang invocations it made (each with the  *)
(* arguments and, for reference, the step's newest timestamp, valley       *)
(* timestamp and hit-test line), the peak timestamps it declared and       *)
(* whether a valley was found, and the buffer slots it read.               *)
(***************************************************************************)
process(d, bx, by, bt, idx, cnt) ==
    IF TooFewSamples(cnt)
    THEN [det |-> d, calls |-> NoCall, peaks |-> {}, valley |-> FALSE, reads |-> {}]
    ELSE
    LET N  == BufSize
        i0 == (idx - 1 + N) % N
        i1 == (idx - 2 + N) % N
        i2 == (idx - 3 + N) % N
        rd == {i0, i1, i2}
        t0 == bt[i0]
        t1 == bt[i1]
        t2 == bt[i2]
        x0 == bx[i0]
        x1 == bx[i1]
        x2 == bx[i2]
        y0 == by[i0]
        dA == updateLineFromGaze(d, y0, t0)
        sx0 == SmoothX(x0, x1, x2)
        sx1 == dA.sx1
        sx2 == dA.sx2
        vx0 == Velocity(x0 - x1, t0 - t1)
        vx1 == Velocity(x1 - x2, t1 - t2)
        vx2 == dA.vx2
        isPeak == IsPosPeak(sx0, sx1, sx2) \/ IsVelZeroCross(vx0, vx1)
        dB == [ dA EXCEPT
                  !.sx2 = sx1, !.sx1 = sx0, !.vx2 = vx1,
                  !.lastPeakTime = IF isPeak THEN t1 ELSE @ ]
        pk == IF isPeak THEN {t1} ELSE {}
        isValley == IsVelValley(vx0, vx1, vx2) /\ IsDeepEnough(vx1)
        now == t0
    IN  IF ~isValley
        THEN [det |-> dB, calls |-> NoCall, peaks |-> pk, valley |-> FALSE,
              reads |-> rd]
        ELSE IF /\ ContentStarted(dB, now)
                /\ CooldownElapsed(dB, now)
                /\ InCascadeWindow(dB, t1)
                /\ LineKnownNotFirst(dB)
                /\ LineAdvanced(dB)
        THEN [ det |-> Fire(dB, now),
               calls |-> << [ line |-> TargetLine(dB.currentLine), vx |-> vx1,
                              now |-> now, valleyT |-> t1,
                              cur |-> dB.currentLine ] >>,
               peaks |-> pk, valley |-> TRUE, reads |-> rd ]
        ELSE [det |-> dB, calls |-> NoCall, peaks |-> pk, valley |-> TRUE,
              reads |-> rd]

\* this._lineEls = null
NoEls == << >>

\* new SeesoManager() in a browser whose user agent is (not) an iOS one
SeesoManager(isIOS) ==
    [ seeso |-> 0, initialized |-> FALSE, tracking |-> FALSE,
      state |-> [sdk |-> "idle", tracking |-> "idle", cal |-> "idle"],
      restartTimer |-> 0, isRestarting |-> FALSE, restartCount |-> 0,
      isIOS |-> isIOS ]

\* no EasySeeso instance made, nothing pending
NoSdk ==
    [ nInst |-> 0, nTimers |-> 0, calPending |-> FALSE,
      inits |-> << >>, tracks |-> 0, runs |-> << >>, timers |-> {} ]

\* the module variables of stress-tester.js as loaded
NewStressTester ==
    [ buffers |-> 0, level |-> 0, running |-> FALSE, timerId |-> FALSE,
      live |-> FALSE, timers |-> 0, op |-> "new" ]

InitBase ==
    /\ gx = [i \in 0..(BufSize - 1) |-> 0]
    /\ gy = [i \in 0..(BufSize - 1) |-> 0]
    /\ gt = [i \in 0..(BufSize - 1) |-> 0]
    /\ gIdx = 0
    /\ gCount = 0
    /\ det = NewDetector
    /\ clock = 0
    /\ calls = << >>
    /\ last = [op |-> "new", nfired |-> 0, valley |-> FALSE, peak |-> FALSE,
                reads |-> {}]
    /\ peaks = {}
    /\ twin = NewDetector
    /\ twinCalls = << >>
    /\ prevY = 0
    /\ nMoves = 0
    /\ pushes = 0
    /\ fires = 0
    /\ written = {}
    /\ nSamples = 0
    /\ nLocks = 0
    /\ nResets = 0
    /\ state = "IDLE"
    /\ tracking = FALSE
    /\ startTimer = "none"
    /\ layoutTimer = FALSE
    /\ spans = FALSE
    /\ lineEls = NoEls
    /\ passageIndex = 0
    /\ sdk = NoSdk
    /\ mlast = [op |-> "new", ret |-> "none", touched |-> FALSE,
                final |-> FALSE, api |-> 0]
    /\ gstart = [pc |-> "none", init |-> 0, calAt |-> "none"]
    /\ stress = NewStressTester

\* the page opened in a desktop browser
Init == InitBase /\ mgr = SeesoManager(FALSE)

\* the page opened in any browser: _isIOS is taken from the user agent
InitAny == InitBase /\ mgr \in {SeesoManager(FALSE), SeesoManager(TRUE)}

\* Game._lockLayout -> PangDetector.lockLayout; the same call is made on
\* the detector tw, which becomes the twin
LockCore(maxLocks, perfs, tw, lays) ==
    /\ nLocks < maxLocks
    /\ \E lay \in lays, p \in perfs :
         /\ det' = lockLayout(det, lay.ys, lay.half, p)
         /\ twin' = lockLayout(tw, lay.ys, lay.half, p)
    /\ calls' = << >>
    /\ twinCalls' = << >>
    /\ last' = [op |-> "lock", nfired |-> 0, valley |-> FALSE, peak |-> FALSE,
                reads |-> {}]
    /\ peaks' = {}
    /\ nLocks' = nLocks + 1
    /\ UNCHANGED <<gx, gy, gt, gIdx, gCount, clock, prevY, nMoves, pushes, fires,
                   written, nSamples, nResets>>

\* the detector call alone, the screen flow untouched
LockLay(maxLocks, perfs, tw, lays) ==
    LockCore(maxLocks, perfs, tw, lays) /\ UNCHANGED gameVars /\ UNCHANGED restVars

LockWith(maxLocks, perfs, tw) == LockLay(maxLocks, perfs, tw, LAYOUTS)

LockUpTo(maxLocks, perfs) == LockWith(maxLocks, perfs, twin)

\* Game._startReading: cursors to 0, detector reset
StartReadingCore(maxResets) ==
    /\ nResets < maxResets
    /\ gIdx' = 0
    /\ gCount' = 0
    /\ det' = reset(det)
    /\ twin' = NewDetector
    /\ calls' = << >>
    /\ twinCalls' = << >>
    /\ last' = [op |-> "reset", nfired |-> 0, valley |-> FALSE, peak |-> FALSE,
                reads |-> {}]
    /\ peaks' = {}
    /\ pushes' = 0
    /\ written' = {}
    /\ nResets' = nResets + 1
    /\ UNCHANGED <<gx, gy, gt, clock, prevY, nMoves, fires, nSamples, nLocks>>

StartReadingUpTo(maxResets) ==
    StartReadingCore(maxResets) /\ UNCHANGED gameVars /\ UNCHANGED restVars

\* Game._destroyReading: detector reset, buffer untouched
DestroyReadingCore(maxResets) ==
    /\ nResets < maxResets
    /\ det' = reset(det)
    /\ twin' = NewDetector
    /\ calls' = << >>
    /\ twinCalls' = << >>
    /\ last' = [op |-> "reset", nfired |-> 0, valley |-> FALSE, peak |-> FALSE,
                reads |-> {}]
    /\ peaks' = {}
    /\ nResets' = nResets + 1
    /\ UNCHANGED <<gx, gy, gt, gIdx, gCount, clock, prevY, nMoves, pushes, fires,
                   written, nSamples, nLocks>>

DestroyReadingUpTo(maxResets) ==
    DestroyReadingCore(maxResets) /\ UNCHANGED gameVars /\ UNCHANGED restVars

\* a count that is not capped at the capacity
NextCountUncapped(c) == c + 1

\* if (this._gCount < MAX_GAZE_ENTRIES) this._gCount++
NextCount(c) == IF c < BufSize THEN c + 1 ELSE c

\* this._gIdx = (this._gIdx + 1) % MAX_GAZE_ENTRIES
NextIdx(i) == (i + 1) % BufSize

\* Game._onGaze in state READING: write the sample, advance, process.
\* withTwin: the twin detector is given the same process() call.
PushAndProcess(x, y, t, withTwin) ==
    LET bx  == [gx EXCEPT ![gIdx] = x]
        by  == [gy EXCEPT ![gIdx] = y]
        bt  == [gt EXCEPT ![gIdx] = t]
        idx == NextIdx(gIdx)
        cnt == NextCount(gCount)
    IN  \E r \in {process(det, bx, by, bt, idx, cnt)} :
          /\ gx' = bx
          /\ gy' = by
          /\ gt' = bt
          /\ gIdx' = idx
          /\ gCount' = cnt
          /\ det' = r.det
          /\ calls' = calls \o r.calls
          /\ last' = [op |-> "gaze", nfired |-> Len(r.calls),
                      valley |-> r.valley, peak |-> r.peaks # {},
                      reads |-> r.reads]
          /\ peaks' = peaks \cup r.peaks
          /\ IF withTwin
             THEN \E w \in {process(twin, bx, by, bt, idx, cnt)} :
                    /\ twin' = w.det
                    /\ twinCalls' = twinCalls \o w.calls
             ELSE UNCHANGED <<twin, twinCalls>>
          /\ clock' = t
          /\ prevY' = y
          /\ nMoves' = IF nSamples > 0 /\ y # prevY THEN nMoves + 1 ELSE nMoves
          /\ pushes' = pushes + 1
          /\ written' = written \cup {gIdx}
          /\ fires' = fires + Len(r.calls)
          /\ nSamples' = nSamples + 1
          /\ UNCHANGED <<nLocks, nResets>>

\* a sample of a block under test: the screen flow is left alone
OnGaze(x, y, t, withTwin) ==
    PushAndProcess(x, y, t, withTwin) /\ UNCHANGED gameVars /\ UNCHANGED restVars

Lock == LockUpTo(MaxLocks, PERF)
StartReading == StartReadingUpTo(MaxResets)
DestroyReading == DestroyReadingUpTo(MaxResets)

\* the next sample may change the gaze Y
MayMove(y) == nSamples = 0 \/ y = prevY \/ nMoves < MaxYMoves

Gaze ==
    /\ nSamples < MaxSamples
    /\ \E x \in XS, y \in YS, dt \in DTS :
         MayMove(y) /\ OnGaze(x, y, clock + dt, FALSE)

(***************************************************************************)
(* The detector within content blocks: lockLayout() at any moment of a     *)
(* gaze stream.                                                            *)
(***************************************************************************)
Next ==
    \/ Lock
    \/ Gaze

Spec == Init /\ [][Next]_vars

(***************************************************************************)
(* The hit-test specification: the same operations over gaze Y values at   *)
(* the band edges, in the gaps and outside every band.                     *)
(***************************************************************************)
GazeLine ==
    /\ nSamples < MaxSamples
    /\ \E x \in XS_LINE, y \in YS_LINE, dt \in DTS_LINE :
         OnGaze(x, y, clock + dt, FALSE)

NextLine ==
    \/ Lock
    \/ StartReading
    \/ DestroyReading
    \/ GazeLine

SpecLine == Init /\ [][NextLine]_vars

(***************************************************************************)
(* The overlap specification: the hit-test over a layout whose adjacent    *)
(* bands overlap.                                                          *)
(***************************************************************************)
LockOverlap == LockLay(MaxLocks, PERF, twin, LAYOUTS_OVERLAP)

GazeOverlap ==
    /\ nSamples < MaxSamples
    /\ \E x \in XS_OVERLAP, y \in YS_OVERLAP, dt \in DTS_OVERLAP :
         OnGaze(x, y, clock + dt, FALSE)

NextOverlap ==
    \/ LockOverlap
    \/ GazeOverlap

SpecOverlap == Init /\ [][NextOverlap]_vars

(***************************************************************************)
(* The reset specification: every operation is also applied to a twin      *)
(* detector that is constructed anew wherever the detector is reset.       *)
(***************************************************************************)
LockTwin == LockUpTo(MaxLocksTwin, PERF)
StartReadingTwin == StartReadingUpTo(MaxResetsTwin)
DestroyReadingTwin == DestroyReadingUpTo(MaxResetsTwin)

GazeTwin ==
    /\ nSamples < MaxSamplesTwin
    /\ \E x \in XS_TWIN, y \in YS_TWIN, dt \in DTS_TWIN :
         OnGaze(x, y, clock + dt, TRUE)

NextTwin ==
    \/ LockTwin
    \/ StartReadingTwin
    \/ DestroyReadingTwin
    \/ GazeTwin

SpecTwin == Init /\ [][NextTwin]_vars

(***************************************************************************)
(* The content-block specification: at every lockLayout() the twin is a    *)
(* freshly constructed detector given the same lockLayout() call.          *)
(***************************************************************************)
LockBlock == LockWith(MaxLocksTwin, PERF, NewDetector)

GazeBlock ==
    /\ nSamples < MaxSamplesTwin
    /\ \E x \in XS_TWIN, y \in YS_TWIN, dt \in DTS_BLOCK :
         OnGaze(x, y, clock + dt, TRUE)

NextBlock ==
    \/ LockBlock
    \/ GazeBlock

SpecBlock == Init /\ [][NextBlock]_vars

(***************************************************************************)
(* The clock specification: Date.now() may repeat or step back between     *)
(* two samples.                                                            *)
(***************************************************************************)
GazeClock ==
    /\ nSamples < MaxSamples
    /\ \E x \in XS_CLOCK, y \in YS_CLOCK, dt \in DTS_CLOCK :
         /\ clock + dt >= 0
         /\ OnGaze(x, y, clock + dt, FALSE)

NextClock ==
    \/ Lock
    \/ GazeClock

SpecClock == Init /\ [][NextClock]_vars

(***************************************************************************)
(* The scripted reading scenario: layout [100, 140, 180] / 15 locked       *)
(* first; sample k arrives at t = 33 k.  Samples 0..30 scan line 0 from    *)
(* x = 10 to x = 500; sample 31 (t = 1023) snaps to x = 20 on line 1;      *)
(* samples 32..61 scan line 1 to x = 500; sample 62 snaps to x = 20 on     *)
(* line 2, followed by two more samples on line 2.                         *)
(***************************************************************************)
ScriptT(k) == 33 * k

ScriptX(k) ==
    IF k <= 30 THEN 10 + ((49 * k) \div 3)
    ELSE IF k <= 61 THEN 20 + 16 * (k - 31)
    ELSE 20 + 16 * (k - 62)

ScriptY(k) == IF k <= 30 THEN 100 ELSE IF k <= 61 THEN 140 ELSE 180

LockScript ==
    /\ nSamples = 0
    /\ LockUpTo(1, PERF_SCRIPT)

GazeScript ==
    /\ nLocks = 1
    /\ nSamples < ScriptLen
    /\ \E j \in YJITTER :
         OnGaze(ScriptX(nSamples), ScriptY(nSamples) + j, ScriptT(nSamples), FALSE)

NextScript ==
    \/ LockScript
    \/ GazeScript

SpecScript == Init /\ [][NextScript]_vars

(***************************************************************************)
(* The scripted scenario with the layout locked late: as in Game, where    *)
(* _startReading lets samples into the buffer 150 ms before the timer of   *)
(* _initReading locks the layout, lockLayout() may come after any number   *)
(* of samples.  The buffer of the program (1800 slots) holds every sample  *)
(* of the script; sample k of it is (ScriptX(k), ScriptT(k)).              *)
(***************************************************************************)
LockLate == LockUpTo(MaxLocks, PERF_SCRIPT)

GazeLate ==
    /\ nSamples < ScriptLen
    /\ OnGaze(ScriptX(nSamples), ScriptY(nSamples), ScriptT(nSamples), FALSE)

NextLate ==
    \/ LockLate
    \/ GazeLate

SpecLate == Init /\ [][NextLate]_vars

(***************************************************************************)
(* The drift specification: layout locked first, then samples whose x      *)
(* never moves right.                                                      *)
(***************************************************************************)
GazeSweep ==
    /\ nLocks = 1
    /\ nSamples < MaxSamplesSweep
    /\ \E x \in XS_SWEEP, y \in YS_SWEEP, dt \in DTS_SWEEP :
         /\ nSamples > 0 => x <= gx[(gIdx - 1 + BufSize) % BufSize]
         /\ MayMove(y)
         /\ OnGaze(x, y, clock + dt, FALSE)

NextSweep ==
    \/ LockScript
    \/ GazeSweep

SpecSweep == Init /\ [][NextSweep]_vars

(***************************************************************************)
(* The screen flow of Game around the detector: start(), calibration, the  *)
(* timers that lead to _startReading(), the 150 ms layout timer of         *)
(* _initReading(), the quiz button, the answer buttons and "play again".   *)
(* A button is clicked only while its section is the active one            *)
(* (setState switches the sections synchronously). A timer started earlier *)
(* with a shorter delay runs before a timer started later with a longer    *)
(* one, so the 150 ms layout timer of a passage runs before the 800 ms or  *)
(* 1500 ms timer that starts the next passage.                             *)
(***************************************************************************)
XS_GAME == {20, 500}
YS_GAME == {140, 180}
DTS_GAME == {500}

\* style.opacity of a line element: never assigned, '0.15', '0'
Untouched == 100
Faint == 15
Gone == 0

\* every state lets the sample into the buffer
CollectingAlways(st) == TRUE

\* if (this.state === 'READING')
Collecting(st) == st = "READING"

\* the timer finds n lines whatever the container holds
LinesFoundAlways(sp, n) == n

\* container.querySelectorAll('span') grouped by offsetTop: the lines the
\* timer callback of _initReading builds (none from an emptied container)
LinesFound(sp, n) == IF sp THEN n ELSE 0

\* only the completed line is dimmed
FadeLineOnlyCurrent(i, k, old) == IF i = k THEN Faint ELSE old

\* the body of the forEach of _onPang for element i (0-based), lineIdx k
FadeLine(i, k, old) ==
    IF i < k THEN Gone
    ELSE IF i = k THEN Faint
    ELSE old

\* Game._onPang(lineIdx, vx) on the cached line elements (nothing if null)
onPang(els, k) == [i \in 1..Len(els) |-> FadeLine(i - 1, k, els[i])]

\* btn-start -> start(): setState('SDK_INIT'), then await initSDK()
GameStart ==
    /\ UNCHANGED restVars
    /\ state = "IDLE"
    /\ state' = "SDK_INIT"
    /\ UNCHANGED <<tracking, startTimer, layoutTimer, spans, lineEls,
                   passageIndex>>
    /\ UNCHANGED detVars

\* start() after initSDK() resolved true: startTracking, setState('CALIBRATION')
GameSdkReady ==
    /\ UNCHANGED restVars
    /\ state = "SDK_INIT"
    /\ tracking' = TRUE
    /\ state' = "CALIBRATION"
    /\ UNCHANGED <<startTimer, layoutTimer, spans, lineEls, passageIndex>>
    /\ UNCHANGED detVars

\* _onCalibrationFinished: setTimeout(() => this._startReading(), 800)
GameCalibrationFinished ==
    /\ UNCHANGED restVars
    /\ state = "CALIBRATION"
    /\ startTimer = "none"
    /\ startTimer' = "calibration"
    /\ UNCHANGED <<state, tracking, layoutTimer, spans, lineEls, passageIndex>>
    /\ UNCHANGED detVars

\* _startReading() for PASSAGES[idx], up to and including _initReading():
\* cursors to 0, detector reset, setState('READING'), the word spans
\* rendered, the 150 ms timer started; _showResult() if there is no passage
startReading(idx) ==
    IF idx < MaxPassages
    THEN /\ StartReadingCore(MaxResetsGame)
         /\ state' = "READING"
         /\ spans' = TRUE
         /\ layoutTimer' = TRUE
         /\ UNCHANGED lineEls
    ELSE /\ state' = "RESULT"
         /\ UNCHANGED <<spans, layoutTimer, lineEls>>
         /\ UNCHANGED detVars

\* the 800 ms timer of _onCalibrationFinished runs
GameCalibrationTimer ==
    /\ UNCHANGED restVars
    /\ startTimer = "calibration"
    /\ ~layoutTimer
    /\ startTimer' = "none"
    /\ startReading(passageIndex)
    /\ UNCHANGED <<tracking, passageIndex>>

\* the 1500 ms timer of _onAnswer runs: passageIndex++, then _startReading()
\* or _showResult()
GameAnswerTimer ==
    /\ UNCHANGED restVars
    /\ startTimer = "answer"
    /\ ~layoutTimer
    /\ startTimer' = "none"
    /\ passageIndex' = passageIndex + 1
    /\ startReading(passageIndex + 1)
    /\ UNCHANGED tracking

\* the 150 ms timer of _initReading runs: the spans are grouped into lines,
\* the container is rebuilt, _lockLayout(lineEls) returns on n === 0 and
\* otherwise locks the detector and caches the elements
GameLayoutTimer ==
    /\ UNCHANGED restVars
    /\ layoutTimer
    /\ layoutTimer' = FALSE
    /\ spans' = FALSE
    /\ \E lay \in LAYOUTS :
         IF LinesFound(spans, Len(lay.ys)) = 0
         THEN /\ UNCHANGED lineEls
              /\ UNCHANGED detVars
         ELSE /\ LockCore(MaxLocksGame, PERF, twin, {lay})
              /\ lineEls' = [i \in 1..LinesFound(spans, Len(lay.ys)) |-> Untouched]
    /\ UNCHANGED <<state, tracking, startTimer, passageIndex>>

\* btn-go-quiz -> showQuiz(): _destroyReading(), setState('QUIZ')
GameShowQuiz ==
    /\ UNCHANGED restVars
    /\ state = "READING"
    /\ DestroyReadingCore(MaxResetsGame)
    /\ spans' = FALSE
    /\ lineEls' = NoEls
    /\ state' = "QUIZ"
    /\ UNCHANGED <<tracking, startTimer, layoutTimer, passageIndex>>

\* an option button -> _onAnswer(): the buttons are disabled, the 1500 ms
\* timer is started
GameAnswer ==
    /\ UNCHANGED restVars
    /\ state = "QUIZ"
    /\ startTimer = "none"
    /\ startTimer' = "answer"
    /\ UNCHANGED <<state, tracking, layoutTimer, spans, lineEls, passageIndex>>
    /\ UNCHANGED detVars

\* btn-play-again: passageIndex = 0, setState('IDLE')
GamePlayAgain ==
    /\ UNCHANGED restVars
    /\ state = "RESULT"
    /\ passageIndex' = 0
    /\ state' = "IDLE"
    /\ UNCHANGED <<tracking, startTimer, layoutTimer, spans, lineEls>>
    /\ UNCHANGED detVars

\* within a passage the reader's gaze never moves back up a line
ReadsDownward(y) == pushes = 0 \/ y >= prevY

\* Game._onGaze: in READING the sample is written and processed, and a
\* trigger runs _onPang inside the same call; in any other state only the
\* gaze dot coordinates are taken
GameGaze ==
    /\ UNCHANGED restVars
    /\ tracking
    /\ nSamples < MaxSamplesGame
    /\ \E x \in XS_GAME, y \in YS_GAME, dt \in DTS_GAME :
         IF Collecting(state)
         THEN /\ ReadsDownward(y)
              /\ PushAndProcess(x, y, clock + dt, TRUE)
              /\ lineEls' = IF Len(calls') > Len(calls)
                            THEN onPang(lineEls, calls'[Len(calls')].line)
                            ELSE lineEls
         ELSE /\ clock' = clock + dt
              /\ nSamples' = nSamples + 1
              /\ last' = [op |-> "skip", nfired |-> 0, valley |-> FALSE,
                          peak |-> FALSE, reads |-> {}]
              /\ UNCHANGED <<gx, gy, gt, gIdx, gCount, det, calls, peaks,
                             twin, twinCalls, prevY, nMoves, pushes, fires,
                             written, nLocks, nResets>>
              /\ UNCHANGED lineEls
    /\ UNCHANGED <<state, tracking, startTimer, layoutTimer, spans,
                   passageIndex>>

NextGame ==
    \/ GameStart
    \/ GameSdkReady
    \/ GameCalibrationFinished
    \/ GameCalibrationTimer
    \/ GameLayoutTimer
    \/ GameShowQuiz
    \/ GameAnswer
    \/ GameAnswerTimer
    \/ GamePlayAgain
    \/ GameGaze

SpecGame == Init /\ [][NextGame]_vars

(***************************************************************************)
(* Readings of the state used by the properties.                           *)
(***************************************************************************)
LastCall == calls[Len(calls)]

\* timestamp and gaze Y of the newest sample, timestamp of the one before
NewestT == gt[(gIdx - 1 + BufSize) % BufSize]
NewestY == gy[(gIdx - 1 + BufSize) % BufSize]
ValleyT == gt[(gIdx - 2 + BufSize) % BufSize]

\* timestamp of sample t-2 and the x of samples t-1, t-2 of the newest step
OldestT == gt[(gIdx - 3 + BufSize) % BufSize]
ValleyX == gx[(gIdx - 2 + BufSize) % BufSize]
OldestX == gx[(gIdx - 3 + BufSize) % BufSize]
NewestX == gx[(gIdx - 1 + BufSize) % BufSize]

\* of the newest step: smoothed x of sample t, v(t) and v(t-1)
StepSx0 == SmoothX(NewestX, ValleyX, OldestX)
StepVx0 == Velocity(NewestX - ValleyX, NewestT - ValleyT)
StepVx1 == Velocity(ValleyX - OldestX, ValleyT - OldestT)

Fired == last.op = "gaze" /\ last.nfired > 0

\* the gaze Y lies in no band of the locked layout
MissesEveryBand(d, y) ==
    \A i \in 1..Len(d.lineYs) :
        y < d.lineYs[i] - d.lineHalf \/ y > d.lineYs[i] + d.lineHalf

(***************************************************************************)
(* C1: while no layout is locked (fresh detector, or after reset() and     *)
(* before the next lockLayout()), no process() call invokes the callback.  *)
(***************************************************************************)
C1_NoPreLockFiring ==
    ~det.hasLineYs => (last.nfired = 0 /\ calls = << >>)

\* a valley is found on a process() step after lockLayout() and reset()
C1_Witness ==
    /\ ~det.hasLineYs
    /\ nLocks > 0
    /\ last.op = "gaze"
    /\ last.valley

(***************************************************************************)
(* C2: between one lockLayout() and the next lockLayout()/reset(), the     *)
(* completedLineIndex values passed to the callback strictly increase.     *)
(***************************************************************************)
C2_MonotonicLineFiring ==
    \A i, j \in 1..Len(calls) : i < j => calls[i].line < calls[j].line

\* two callbacks in one content block, for line 0 and then for line 1
C2_Witness ==
    /\ Len(calls) = 2
    /\ calls[1].line = 0
    /\ calls[2].line = 1

(***************************************************************************)
(* C3: the callback is never invoked on a process() step whose hit-test    *)
(* line is 0 or unknown, and completedLineIndex is never -1.               *)
(***************************************************************************)
C3_FirstLineExclusion ==
    /\ (last.op = "gaze" /\ det.currentLine \in {NoLine, 0}) => last.nfired = 0
    /\ \A i \in 1..Len(calls) : calls[i].line # -1

\* a valley step on line 0 that passes the content-start, cooldown and
\* cascade gates and is stopped by the line guard alone
C3_Witness ==
    /\ last.op = "gaze"
    /\ last.valley
    /\ det.currentLine = 0
    /\ ContentStarted(det, NewestT)
    /\ CooldownElapsed(det, NewestT)
    /\ InCascadeWindow(det, ValleyT)
    /\ last.nfired = 0

(***************************************************************************)
(* C4 as claimed: two process() steps whose valley timestamps (sample t-1) *)
(* are less than 500 ms apart do not both invoke the callback.             *)
(***************************************************************************)
C4_Original_ValleyTimes ==
    \A i, j \in 1..Len(calls) :
        i < j => ~(Abs(calls[j].valleyT - calls[i].valleyT) < COOLDOWN_MS)

(***************************************************************************)
(* C4 as amended: within one content block, two process() steps whose      *)
(* newest-sample timestamps (now) are less than 500 ms apart do not both   *)
(* invoke the callback.                                                    *)
(***************************************************************************)
C4_CooldownByNow ==
    \A i, j \in 1..Len(calls) :
        i < j => calls[j].now - calls[i].now >= COOLDOWN_MS

\* two callbacks in one block whose valleys are less than 500 ms apart
C4_Witness ==
    /\ Len(calls) = 2
    /\ calls[2].valleyT - calls[1].valleyT < COOLDOWN_MS

(***************************************************************************)
(* C5 as claimed: a process() step never fires when its valley timestamp   *)
(* is 600 ms or more away from every peak declared in the current content  *)
(* block, in particular when no peak has been declared.                    *)
(***************************************************************************)
C5_CascadeWindow ==
    Fired => \E p \in peaks : Abs(LastCall.valleyT - p) < CASCADE_MS

\* one gaze step: a miss keeps the line, a known line stays known
C6_StickyStep ==
    last'.op = "gaze" =>
        /\ MissesEveryBand(det, NewestY') => det'.currentLine = det.currentLine
        /\ det.currentLine # NoLine => det'.currentLine # NoLine

(***************************************************************************)
(* C6: a sample whose Y lies outside every band leaves the current line    *)
(* unchanged; once a line has matched it does not return to unknown        *)
(* before the next lockLayout()/reset(); the current line is unknown or    *)
(* an index in [0, lineCount-1].                                           *)
(***************************************************************************)
C6_StickyHitTest ==
    /\ [](det.currentLine = NoLine \/ det.currentLine \in 0..(det.lineCount - 1))
    /\ [][C6_StickyStep]_vars

\* a line is known and the newest processed sample lies outside every band
C6_Witness ==
    /\ last.op = "gaze"
    /\ gCount >= 3
    /\ det.hasLineYs
    /\ MissesEveryBand(det, NewestY)
    /\ det.currentLine = 1

\* equal detector state and layout reference; the half-height is compared
\* while a layout is locked
SameDetector(a, b) ==
    /\ [a EXCEPT !.lineHalf = 0] = [b EXCEPT !.lineHalf = 0]
    /\ a.hasLineYs => a.lineHalf = b.lineHalf

(***************************************************************************)
(* C7: reset() leaves the detector state of a freshly constructed          *)
(* detector (every detector-state scalar and no layout), also when called  *)
(* twice in a row or with no prior lockLayout(); and after reset() the     *)
(* detector behaves on every later input like a fresh one: it makes the    *)
(* same callbacks and holds the same state as the twin constructed at the  *)
(* reset.  (_lineHalf is layout data that reset() leaves in place; it is   *)
(* compared once a layout is locked again.)                                *)
(***************************************************************************)
C7_ResetIdempotence ==
    /\ last.op = "reset" => SameDetector(det, NewDetector)
    /\ nResets > 0 => (SameDetector(det, twin) /\ calls = twinCalls)

\* after lockLayout(), reset(), reset() and lockLayout() again, the detector
\* fires
C7_Witness ==
    /\ nResets = 2
    /\ nLocks = 2
    /\ Fired

\* reset() with no prior lockLayout()
C7_WitnessNoLock ==
    /\ last.op = "reset"
    /\ nLocks = 0
    /\ nSamples >= 3

(***************************************************************************)
(* C8: every callback receives completedLineIndex = current line - 1,      *)
(* which is >= 0, and a velocity below -0.4 (so negative); one process()   *)
(* step invokes the callback at most once.                                 *)
(***************************************************************************)
C8_CallbackArguments ==
    /\ last.nfired <= 1
    /\ Fired =>
         /\ LastCall.line = det.currentLine - 1
         /\ LastCall.line >= 0
         /\ LastCall.vx.n * 5 < -2 * LastCall.vx.d
         /\ LastCall.vx.n < 0

\* a callback for line 1 with velocity -480/500
C8_Witness ==
    /\ Fired
    /\ LastCall.line = 1
    /\ LastCall.vx = [n |-> -24, d |-> 25]

\* the five gate conditions of a gaze step, from the state before the step
\* (content start, last trigger, highest line reported), the timestamps of
\* its two newest samples, the line after its hit-test and the last peak
\* after its peak update
C9_FiveConditions ==
    LET now  == NewestT'
        t1   == ValleyT'
        peak == IF last'.peak THEN t1 ELSE det.lastPeakTime
    IN  /\ now >= det.firstContentTime
        /\ now - det.lastTriggerTime >= 500
        /\ Abs(t1 - peak) < 600
        /\ det'.currentLine # NoLine /\ det'.currentLine # 0
        /\ det'.currentLine > det.maxLineReached

C9_GateStep ==
    (last'.op = "gaze" /\ last'.valley) =>
        last'.nfired = (IF C9_FiveConditions THEN 1 ELSE 0)

(***************************************************************************)
(* C9: on a process() step that finds a valley, the callback is invoked    *)
(* exactly once if all five gate conditions hold and not at all if one of  *)
(* them fails.                                                             *)
(***************************************************************************)
C9_GateDecides == [][C9_GateStep]_vars

\* a valley step that passes every gate but the content-start gate
C9_Witness ==
    /\ last.op = "gaze"
    /\ last.valley
    /\ last.nfired = 0
    /\ det.firstContentTime > NewestT
    /\ CooldownElapsed(det, NewestT)
    /\ InCascadeWindow(det, ValleyT)
    /\ LineKnownNotFirst(det)
    /\ LineAdvanced(det)

(***************************************************************************)
(* C10 as claimed: the scripted scenario yields exactly two callbacks,     *)
(* (0, v0) then (1, v1) with v0, v1 < 0, and no earlier or duplicate one.  *)
(***************************************************************************)
C10_ScenarioTwoCalls ==
    /\ Len(calls) <= 2
    /\ Len(calls) >= 1 => (calls[1].line = 0 /\ calls[1].vx.n < 0)
    /\ Len(calls) = 2 => (calls[2].line = 1 /\ calls[2].vx.n < 0)
    /\ nSamples <= 32 => Len(calls) = 0
    /\ nSamples = ScriptLen => Len(calls) = 2

\* the outcome when lockLayout() read performance.now() = 1
C10_OutcomeEarlyStamp ==
    (det.firstContentTime = 1 /\ nSamples = ScriptLen) =>
        /\ Len(calls) = 2
        /\ calls[1].line = 0 /\ calls[1].now = 1056
        /\ calls[2].line = 1 /\ calls[2].now = 2079

(***************************************************************************)
(* C11: the callback is never invoked on a process() step whose newest     *)
(* sample timestamp is earlier than the content start that lockLayout()    *)
(* stamped for the current content block.                                  *)
(***************************************************************************)
C11_ContentStartGate ==
    Fired => (det.hasLineYs /\ LastCall.now >= det.firstContentTime)

\* a valley step on line 1 before the stamped content start: cooldown,
\* cascade window and line guards pass, the callback is not invoked
C11_Witness ==
    /\ last.op = "gaze"
    /\ last.valley
    /\ det.hasLineYs
    /\ NewestT < det.firstContentTime
    /\ det.currentLine = 1
    /\ det.maxLineReached = -1
    /\ CooldownElapsed(det, NewestT)
    /\ InCascadeWindow(det, ValleyT)
    /\ calls = << >>

(***************************************************************************)
(* C12: after any number of pushes since the cursors were last set to 0,   *)
(* the write index equals (pushes mod capacity), so it names a slot in     *)
(* [0, capacity-1], and count equals min(pushes, capacity).                *)
(***************************************************************************)
C12_BufferCursors ==
    /\ gIdx = pushes % BufSize
    /\ gIdx \in 0..(BufSize - 1)
    /\ gCount = (IF pushes < BufSize THEN pushes ELSE BufSize)

\* the buffer has wrapped after a cursor reset that followed earlier samples
C12_Witness ==
    /\ nResets > 0
    /\ pushes < nSamples
    /\ pushes > BufSize
    /\ gIdx = 1

\* one gaze step with fewer than 3 samples buffered
C13_ShortStep ==
    (last'.op = "gaze" /\ gCount' < 3) =>
        (det' = det /\ calls' = calls /\ last'.nfired = 0)

(***************************************************************************)
(* C13: process() called while fewer than 3 samples are buffered changes   *)
(* no detector state (line, caches, lastPeakTime, lastTriggerTime,         *)
(* maxLineReached) and does not invoke the callback.                       *)
(***************************************************************************)
C13_InsufficientHistory == [][C13_ShortStep]_vars

\* the second sample after lockLayout() lies on line 1 and jumped left,
\* the line is still unknown
C13_Witness ==
    /\ last.op = "gaze"
    /\ gCount = 2
    /\ det.hasLineYs
    /\ NewestY = 140
    /\ NewestT - ValleyT = 50
    /\ ValleyX = 500
    /\ gx[(gIdx - 1 + BufSize) % BufSize] = 20
    /\ det.currentLine = NoLine

(***************************************************************************)
(* C14: when the timestamp delta of samples t-2, t-1 is <= 0 the velocity  *)
(* v(t-1) is 0 (it is the velocity cache after the step) and the step      *)
(* does not invoke the callback; the same holds for the pair t-1, t on     *)
(* the following step.                                                     *)
(***************************************************************************)
C14_NonIncreasingTime ==
    (last.op = "gaze" /\ gCount >= 3 /\ ValleyT - OldestT <= 0) =>
        (det.vx2 = Zero /\ last.nfired = 0)

\* on line 1 of a locked layout, after the content start, the gaze jumped
\* left between two samples whose timestamps step back
C14_Witness ==
    /\ last.op = "gaze"
    /\ gCount >= 3
    /\ ValleyT < OldestT
    /\ ValleyX < OldestX
    /\ det.hasLineYs
    /\ det.currentLine = 1
    /\ ContentStarted(det, NewestT)
    /\ CooldownElapsed(det, NewestT)
    /\ last.nfired = 0

\* equal timestamps
C14_WitnessSameTime ==
    /\ last.op = "gaze"
    /\ gCount >= 3
    /\ ValleyT = OldestT
    /\ ValleyX < OldestX
    /\ det.currentLine = 1

\* a freshly constructed detector with the layout and content start of d
FreshWithLayoutOf(d) ==
    [ NewDetector EXCEPT
        !.hasLineYs = d.hasLineYs, !.lineYs = d.lineYs, !.lineHalf = d.lineHalf,
        !.lineCount = d.lineCount, !.firstContentTime = d.firstContentTime ]

(***************************************************************************)
(* C15: immediately after lockLayout() every detector-state scalar has its *)
(* freshly constructed value, the layout and the content start being the   *)
(* only differences; in the new content block the detector makes the same  *)
(* callbacks and holds the same state as a freshly constructed detector    *)
(* given the same lockLayout() and the same samples.                       *)
(***************************************************************************)
C15_LockClears ==
    /\ last.op = "lock" => (det = FreshWithLayoutOf(det) /\ det.hasLineYs)
    /\ det = twin
    /\ calls = twinCalls

\* the first block reported line 0; the second block reports line 0 again
C15_Witness ==
    /\ nLocks = 2
    /\ fires = 2
    /\ Fired
    /\ Len(calls) = 1
    /\ LastCall.line = 0

(***************************************************************************)
(* C16: for any two consecutive callbacks within one content block, the    *)
(* newest-sample timestamps of the two firing steps differ by at least     *)
(* 500 ms.                                                                 *)
(***************************************************************************)
C16_ConsecutiveFiresApart ==
    \A i \in 1..(Len(calls) - 1) :
        calls[i + 1].now - calls[i].now >= COOLDOWN_MS

\* two callbacks in one block on steps 550 ms apart
C16_Witness ==
    /\ Len(calls) = 2
    /\ Fired
    /\ calls[2].now - calls[1].now = 550

(***************************************************************************)
(* C17 as claimed: between two consecutive callbacks of a content block    *)
(* a peak is declared after the first firing step and no later than the    *)
(* second.  Timestamps strictly increase, so a peak declared on such a     *)
(* step carries a timestamp from the first step's newest sample to the     *)
(* second step's valley sample.                                            *)
(***************************************************************************)
C17_FreshPeakBetweenFires ==
    \A i \in 1..(Len(calls) - 1) :
        \E p \in peaks : calls[i].now <= p /\ p <= calls[i + 1].valleyT

\* the detector after a gaze step that does everything but the FIRE block
C18_WithoutFire ==
    [ updateLineFromGaze(det, NewestY', NewestT') EXCEPT
        !.sx2 = det.sx1, !.sx1 = StepSx0', !.vx2 = StepVx1',
        !.lastPeakTime = IF last'.peak THEN ValleyT' ELSE @ ]

C18_FireStep ==
    (last'.op = "gaze" /\ last'.nfired > 0) =>
        det' = [ C18_WithoutFire EXCEPT
                   !.lastTriggerTime = NewestT',
                   !.maxLineReached = C18_WithoutFire.currentLine,
                   !.lastPeakTime = 0 ]

(***************************************************************************)
(* C18: a firing step sets lastTriggerTime to the newest sample's          *)
(* timestamp, maxLineReached to the current hit-test line and lastPeakTime *)
(* to 0; the current line, the caches, the layout and the content start    *)
(* are what the step leaves without the fire.                              *)
(***************************************************************************)
C18_FireFrame == [][C18_FireStep]_vars

\* a callback for line 1 on a step that also declared a peak and moved
\* the current line to 2
C18_Witness ==
    /\ Fired
    /\ last.peak
    /\ ValleyT # 0
    /\ det.lastPeakTime = 0
    /\ det.lastTriggerTime = NewestT
    /\ det.currentLine = 2
    /\ det.lastLineChangeT = NewestT
    /\ det.maxLineReached = 2

\* no valley on the step: v(t-1) is not a strict minimum of the three
\* velocities or is not below -0.4
C19_NoValley ==
    \E v0 \in {StepVx0'}, v1 \in {StepVx1'} :
        ~ (FLt(v1, det.vx2) /\ FLt(v1, v0) /\ FLt(v1, DepthThreshold))

C19_QuietStep ==
    (last'.op = "gaze" /\ gCount' >= 3 /\ C19_NoValley) =>
        /\ last'.nfired = 0
        /\ calls' = calls
        /\ det'.lastTriggerTime = det.lastTriggerTime
        /\ det'.maxLineReached = det.maxLineReached
        /\ det'.lastPeakTime = (IF last'.peak THEN ValleyT' ELSE det.lastPeakTime)

(***************************************************************************)
(* C19: on a step on which no valley is found the callback is not invoked, *)
(* lastTriggerTime and maxLineReached keep their values and lastPeakTime   *)
(* is not cleared (it keeps its value or takes this step's peak).          *)
(***************************************************************************)
C19_NoValleyNoGate == [][C19_QuietStep]_vars

\* a V-shaped velocity of -0.04 on line 1 after the content start, with a
\* peak within the cascade window and the cooldown elapsed
C19_Witness ==
    /\ last.op = "gaze"
    /\ gCount >= 3
    /\ StepVx1 = [n |-> -1, d |-> 25]
    /\ FLt(StepVx1, StepVx0)
    /\ ~last.valley
    /\ det.currentLine = 1
    /\ det.lastPeakTime # 0
    /\ ContentStarted(det, NewestT)
    /\ CooldownElapsed(det, NewestT)
    /\ InCascadeWindow(det, ValleyT)

\* the peak condition of a step: (a) on the retained smoothed values and
\* the new one, (b) on v(t-1) and v(t)
C20_PeakCondition ==
    \E v0 \in {StepVx0'}, v1 \in {StepVx1'} :
        \/ (det.sx1 >= det.sx2 /\ det.sx1 > StepSx0')
        \/ (FGe(v1, Zero) /\ FLt(v0, Zero))

C20_OriginalStep ==
    (last'.op = "gaze" /\ gCount' >= 3) =>
        det'.lastPeakTime = (IF C20_PeakCondition THEN ValleyT' ELSE det.lastPeakTime)

C20_PeakStep ==
    (last'.op = "gaze" /\ gCount' >= 3) =>
        \E cond \in {C20_PeakCondition} :
          /\ last'.peak = cond
          /\ last'.nfired = 0 =>
               det'.lastPeakTime = (IF cond THEN ValleyT' ELSE det.lastPeakTime)
          /\ last'.nfired > 0 => det'.lastPeakTime = 0
          /\ C19_NoValley => last'.nfired = 0

C20_WitnessFire ==
    /\ Fired
    /\ last.peak
    /\ ValleyT # 0

\* |y - centerY[i]| <= halfHeight, i counted from 1
C21_InBand(d, y, i) == Abs(y - d.lineYs[i]) <= d.lineHalf

(***************************************************************************)
(* C21: after a process() step whose sample Y lies within half-height of   *)
(* at least one line centre, the current line is the lowest such line      *)
(* index, also when the bands of adjacent lines overlap.                   *)
(***************************************************************************)
C21_LowestMatchingLine ==
    (last.op = "gaze" /\ gCount >= 3 /\ det.hasLineYs) =>
        \A i \in 1..det.lineCount :
            (C21_InBand(det, NewestY, i) /\
             \A j \in 1..(i - 1) : ~C21_InBand(det, NewestY, j))
                => det.currentLine = i - 1

\* the gaze moved from line 2 into the overlap of lines 0 and 1 and the
\* current line became 0
C21_Witness ==
    /\ last.op = "gaze"
    /\ gCount >= 3
    /\ det.hasLineYs
    /\ NewestY = 120
    /\ gy[(gIdx - 2 + BufSize) % BufSize] = 180
    /\ det.currentLine = 0
    /\ det.lastLineChangeT = NewestT
    /\ NewestT - det.firstContentTime > 100

\* the slots at offsets 1, 2 and 3 back from the write index
C22_ThreeBack == { (gIdx - k + BufSize) % BufSize : k \in 1..3 }

C22_ReadOnlyStep ==
    last'.op = "gaze" =>
        /\ \A i \in 0..(BufSize - 1) :
               i # gIdx => (gx'[i] = gx[i] /\ gy'[i] = gy[i] /\ gt'[i] = gt[i])
        /\ det'.hasLineYs = det.hasLineYs
        /\ det'.lineYs = det.lineYs
        /\ det'.lineHalf = det.lineHalf
        /\ det'.lineCount = det.lineCount

C23_BecomesReading == state' = "READING" /\ state # "READING"

\* the step of showQuiz()
C23_BlockEnds == state = "READING" /\ state' = "QUIZ"

C23_Step ==
    /\ C23_BecomesReading =>
           (gIdx' = 0 /\ gCount' = 0 /\ SameDetector(det', NewDetector))
    /\ C23_BlockEnds => SameDetector(det', NewDetector)

(***************************************************************************)
(* C23: whenever Game.state becomes READING the buffer cursors are 0 and   *)
(* the detector holds the state of a freshly constructed one, and          *)
(* showQuiz() leaves it in that state too; during a passage process()      *)
(* reads only slots written since the passage started, and the detector    *)
(* makes the same callbacks and holds the same state as a twin constructed *)
(* when the passage started.                                               *)
(***************************************************************************)
C23_BlockLifecycle ==
    /\ [][C23_Step]_vars
    /\ [](state = "READING" =>
            /\ last.op = "gaze" => last.reads \subseteq written
            /\ SameDetector(det, twin)
            /\ calls = twinCalls)

\* the first process() step of the second passage that examines samples,
\* after a trigger in the first passage
C23_Witness ==
    /\ state = "READING"
    /\ passageIndex = 1
    /\ fires >= 1
    /\ last.op = "gaze"
    /\ pushes = 3
    /\ last.reads = C22_ThreeBack
    /\ calls = << >>

\* a step that delivers a gaze sample to Game._onGaze
C24_Sample == nSamples' = nSamples + 1

C24_Step ==
    /\ fires' # fires =>
           /\ C24_Sample
           /\ state = "READING" /\ state' = "READING"
           /\ last'.op = "gaze" /\ last'.nfired = fires' - fires
           /\ gt'[gIdx] = clock'
    /\ (C24_Sample /\ state # "READING") =>
           /\ UNCHANGED <<gx, gy, gt, gIdx, gCount, det, calls, fires>>
           /\ last'.op = "skip"
    /\ (C24_Sample /\ state = "READING") =>
           /\ gIdx' = NextIdx(gIdx)
           /\ last'.op = "gaze"

(***************************************************************************)
(* C24: the callback is invoked only on a step that delivers a sample      *)
(* while Game.state is READING, inside the processing of that sample (the  *)
(* newest buffered one); a sample delivered in any other state changes     *)
(* neither the buffer, the cursors nor the detector, and makes no          *)
(* callback.                                                               *)
(***************************************************************************)
C24_PangOnlyWhileReading == [][C24_Step]_vars

\* a sample arrives on the quiz screen after a passage in which the
\* detector fired, and is dropped
C24_Witness ==
    /\ state = "QUIZ"
    /\ last.op = "skip"
    /\ fires >= 1
    /\ pushes >= 4

(***************************************************************************)
(* C29: outside READING the detector holds no layout and Game._lineEls is  *)
(* null, however the 150 ms layout timer and the quiz button interleave: a *)
(* timer that runs after showQuiz() finds the container emptied, builds no *)
(* line and locks nothing.                                                 *)
(***************************************************************************)
C29_LayoutOnlyWhileReading ==
    /\ state # "READING" => (~det.hasLineYs /\ lineEls = NoEls)
    /\ spans => (state = "READING" /\ layoutTimer)

\* the quiz button was clicked before the layout timer of the passage ran,
\* and the timer has run since
C29_Witness ==
    /\ state = "QUIZ"
    /\ ~layoutTimer
    /\ nLocks = 0
    /\ ~det.hasLineYs
    /\ lineEls = NoEls

\* the step is a trigger with completedLineIndex k on cached line elements
C30_PangStep(k) ==
    /\ Len(lineEls') = Len(lineEls)
    /\ k + 1 <= Len(lineEls)
    /\ \A i \in 1..Len(lineEls) :
         /\ i - 1 < k => lineEls'[i] = Gone
         /\ i - 1 = k => lineEls'[i] = Faint
         /\ i - 1 > k => lineEls'[i] = lineEls[i]

C30_Step ==
    /\ (fires' # fires /\ lineEls # NoEls) =>
           C30_PangStep(calls'[Len(calls')].line)
    /\ (lineEls # NoEls /\ lineEls' # NoEls) =>
           /\ Len(lineEls') = Len(lineEls)
           /\ \A i \in 1..Len(lineEls) : lineEls'[i] <= lineEls[i]
    /\ fires' = fires => (lineEls' = lineEls \/ nLocks' # nLocks
                          \/ lineEls' = NoEls)

C30_WitnessSkip ==
    /\ state = "READING"
    /\ Len(calls) = 1
    /\ calls[1].line = 1
    /\ lineEls = <<Gone, Faint, Untouched>>

\* sx(t-1), sx(t-2) and v(t-2) recomputed from the buffered samples, the
\* newest being sample n - 1 of the script
C25_RefSx1(n) == SmoothX(ScriptX(n - 2), ScriptX(n - 3), ScriptX(n - 4))
C25_RefSx2(n) == SmoothX(ScriptX(n - 3), ScriptX(n - 4), ScriptX(n - 5))
C25_RefVx2(n) ==
    Velocity(ScriptX(n - 3) - ScriptX(n - 4), ScriptT(n - 3) - ScriptT(n - 4))

\* the step processes a sample with samples t-1 .. t-4 in the buffer
C25_Evaluates == last'.op = "gaze" /\ gCount' >= 3 /\ nSamples' >= 5

C25_Step ==
    C25_Evaluates =>
        /\ det.sx1 = C25_RefSx1(nSamples')
        /\ det.sx2 = C25_RefSx2(nSamples')
        /\ det.vx2 = C25_RefVx2(nSamples')

(***************************************************************************)
(* C25: on every process() step that evaluates the peak and valley         *)
(* conditions, the retained _sx1, _sx2 and _vx2 it uses equal sx(t-1),     *)
(* sx(t-2) and v(t-2) recomputed from the buffered samples, also on the    *)
(* first steps after lockLayout().                                         *)
(***************************************************************************)
C25_CachesRefineBuffer == [][C25_Step]_vars

\* what does hold: the caches equal the recomputed values on every step
\* on which the retained sx(t-2) is not the 0 that lockLayout() left
C25_Settled ==
    [][(C25_Evaluates /\ last.op = "gaze" /\ nLocks' = nLocks /\
        det.sx2 # 0) => C25_Step]_vars

(***************************************************************************)
(* C26: on every firing step the timestamp of the valley sample (t-1) is   *)
(* not earlier than the content-start time that lockLayout() stamped.      *)
(***************************************************************************)
C26_ValleyAfterContentStart ==
    (last.op = "gaze" /\ last.nfired > 0) => ValleyT >= det.firstContentTime

\* a trigger whose valley sample (t = 600) precedes the content start (700)
\* and whose peak (t = 100) was declared by the zero crossing
C26_EarlyValleyFires ==
    /\ last.op = "gaze" /\ last.nfired > 0
    /\ det.firstContentTime = 700
    /\ ValleyT = 600
    /\ NewestT = 1100
    /\ peaks = {100}

\* the step finds a deep valley after content start and the cooldown check
\* stops it
C27_CooldownRejects ==
    /\ last'.op = "gaze"
    /\ last'.valley
    /\ ContentStarted(det, NewestT')
    /\ ~CooldownElapsed(det, NewestT')

C27_Step ==
    C27_CooldownRejects =>
        (calls # << >> /\ NewestT' - LastCall.now < COOLDOWN_MS)

(***************************************************************************)
(* C27: the cooldown check stops a deep valley only if a trigger fired     *)
(* earlier in the same content block, less than 500 ms before the newest   *)
(* sample; the first such valley of a block always passes it.              *)
(***************************************************************************)
C27_CooldownOnlyAfterTrigger == [][C27_Step]_vars

\* the first valley of a block, with peaks declared at t = 100 and t = 150
\* and the gaze on line 1, is not reported: the newest sample is at t = 200
C27_FirstValleyRejected ==
    /\ last.op = "gaze" /\ last.valley /\ last.nfired = 0
    /\ calls = << >>
    /\ det.firstContentTime = 1
    /\ peaks = {100, 150}
    /\ det.lastPeakTime = 150
    /\ ValleyT = 150
    /\ NewestT = 200
    /\ det.currentLine = 1

\* maxLineReached against the callbacks made since the last lockLayout() or
\* reset()
C28_MaxLineState ==
    /\ calls = << >> => det.maxLineReached = -1
    /\ calls # << >> =>
           /\ det.maxLineReached = LastCall.line + 1
           /\ det.maxLineReached >= 1
           /\ det.maxLineReached <= det.lineCount - 1
    /\ \A i \in 1..Len(calls) : calls[i].line <= det.lineCount - 2
    /\ det.hasLineYs => Len(calls) <= det.lineCount - 1
    /\ ~det.hasLineYs => calls = << >>

(***************************************************************************)
(* C28: in every state maxLineReached is -1 if nothing was reported since  *)
(* the last lockLayout() or reset(), and otherwise is the last reported    *)
(* completedLineIndex plus one and lies in 1 .. lineCount - 1; a           *)
(* process() step never lowers it; so no reported index exceeds            *)
(* lineCount - 2 and a block has at most lineCount - 1 callbacks.          *)
(***************************************************************************)
C28_MaxLineReached ==
    /\ []C28_MaxLineState
    /\ [][last'.op = "gaze" => det'.maxLineReached >= det.maxLineReached]_vars

\* the last line of a three-line layout was reached by two triggers
C28_Witness ==
    /\ last.op = "gaze" /\ last.nfired = 1
    /\ Len(calls) = det.lineCount - 1
    /\ Len(calls) = 2
    /\ det.maxLineReached = det.lineCount - 1

\* one trigger that skips line 1 and reaches the last line at once
C28_WitnessSkip ==
    /\ last.op = "gaze" /\ last.nfired = 1
    /\ Len(calls) = 1
    /\ det.maxLineReached = det.lineCount - 1

\* the SeesoManager: initSDK() calls, calls of the page, restarts, restart
\* timers set, EasySeeso instances made, startTracking promises pending
MaxInits == 2
MaxApi == 3
MaxRestarts == 2
MaxMgrTimers == 3
MaxInst == 3
MaxTracks == 2

\* ---------------------------------------------------------------------------
\* SeesoManager (src/seeso-manager.js) with the SDK behind it, and the calls
\* Game.start() makes into it.
\*
\* The SDK itself (EasySeeso over dist/seeso) is outside the manager: when and
\* with what result its callbacks and promises come back is open.  An awaited
\* promise that is already settled lets its continuation run before any other
\* timer, click or callback, so the continuation belongs to the step that
\* settles the promise.  The public methods may be called at any time by the
\* page (window.__game.seesoMgr).
\* ---------------------------------------------------------------------------

\* the manager and the SDK while one handler runs: ret is what the call
\* returned, touched whether it called into the SDK
World == [mgr |-> mgr, sdk |-> sdk, ret |-> "none", touched |-> FALSE]

\* _setState(key, value)
setState(w, key, value) == [w EXCEPT !.mgr.state[key] = value]

\* _cancelRestart()
cancelRestart(w) ==
    IF w.mgr.restartTimer # 0
    THEN [w EXCEPT !.sdk.timers = @ \ {w.mgr.restartTimer},
                   !.mgr.restartTimer = 0]
    ELSE w

\* _scheduleRestart() that does not cancel the timer already set
scheduleRestartKeeping(w) ==
    IF ~w.mgr.isIOS
    THEN w
    ELSE [w EXCEPT !.sdk.nTimers = @ + 1,
                   !.sdk.timers = @ \cup {w.sdk.nTimers + 1},
                   !.mgr.restartTimer = w.sdk.nTimers + 1]

\* _scheduleRestart()
scheduleRestart(w) ==
    IF ~w.mgr.isIOS
    THEN w
    ELSE LET c == cancelRestart(w)
         IN  [c EXCEPT !.sdk.nTimers = @ + 1,
                       !.sdk.timers = @ \cup {c.sdk.nTimers + 1},
                       !.mgr.restartTimer = c.sdk.nTimers + 1]

\* the closure of one initSDK() call: the EasySeeso instance it made, its 30 s
\* timer, the SDK's answer, and what the promise resolved with
InitClosure(inst, timer, answer, result) ==
    [inst |-> inst, timer |-> timer, sdk |-> answer, result |-> result]

\* initSDK() up to the return of the promise; throws: new EasySeeso() throws
initSDK(w, throws) ==
    IF w.mgr.initialized
    THEN [w EXCEPT !.ret = "true"]
    ELSE IF throws
         THEN [setState(setState(w, "sdk", "loading"), "sdk", "failed") EXCEPT
                  !.sdk.inits = Append(@, InitClosure(0, "cleared", "none",
                                                      "false")),
                  !.ret = "promise"]
         ELSE [setState(w, "sdk", "loading") EXCEPT
                  !.sdk.nInst = @ + 1,
                  !.mgr.seeso = w.sdk.nInst + 1,
                  !.sdk.inits = Append(@, InitClosure(w.sdk.nInst + 1,
                                                      "pending", "pending",
                                                      "none")),
                  !.touched = TRUE,
                  !.ret = "promise"]

\* resolve(v) of the promise of the k-th initSDK(): only the first one counts
resolve(w, k, v) ==
    IF w.sdk.inits[k].result = "none"
    THEN [w EXCEPT !.sdk.inits[k].result = v]
    ELSE w

\* clearTimeout(timeout) in the callbacks of the k-th initSDK()
clearInitTimeout(w, k) ==
    IF w.sdk.inits[k].timer = "pending"
    THEN [w EXCEPT !.sdk.inits[k].timer = "cleared"]
    ELSE w

\* the 30 s timer of the k-th initSDK() fires
initTimedOut(w, k) ==
    resolve(setState([w EXCEPT !.sdk.inits[k].timer = "fired"],
                     "sdk", "failed"), k, "false")

\* the afterInitialized callback of the k-th initSDK()
afterInitialized(w, k) ==
    resolve(setState([clearInitTimeout([w EXCEPT !.sdk.inits[k].sdk = "done"],
                                       k)
                        EXCEPT !.mgr.initialized = TRUE],
                     "sdk", "initialized"), k, "true")

\* the afterFailed callback of the k-th initSDK()
afterFailed(w, k) ==
    resolve(setState(clearInitTimeout([w EXCEPT !.sdk.inits[k].sdk = "done"],
                                      k),
                     "sdk", "failed"), k, "false")

\* startTracking() without its guard
startTrackingUnguarded(w) ==
    [setState(w, "tracking", "starting") EXCEPT
        !.sdk.tracks = @ + 1, !.touched = TRUE, !.ret = "promise"]

\* startTracking(onGaze, onDebug) up to its await
startTracking(w) ==
    IF w.mgr.seeso = 0 \/ ~w.mgr.initialized
    THEN [w EXCEPT !.ret = "false"]
    ELSE [setState(w, "tracking", "starting") EXCEPT
             !.sdk.tracks = @ + 1, !.touched = TRUE, !.ret = "promise"]

\* startTracking() after its await: the SDK's promise gave true or false, or
\* was rejected
trackingStarted(w, outcome) ==
    CASE outcome = "true" ->
            scheduleRestart(setState([w EXCEPT !.mgr.tracking = TRUE,
                                               !.ret = "true"],
                                     "tracking", "running"))
      [] outcome = "false" ->
            setState([w EXCEPT !.mgr.tracking = FALSE, !.ret = "false"],
                     "tracking", "failed")
      [] OTHER ->
            setState([w EXCEPT !.ret = "false"], "tracking", "failed")

\* startCalibration(...); ok is what the SDK's startCalibration returns
startCalibration(w, ok) ==
    IF w.mgr.seeso = 0 \/ ~w.mgr.initialized
    THEN [w EXCEPT !.ret = "false"]
    ELSE [setState(setState(w, "cal", "running"),
                   "cal", IF ok THEN "running" ELSE "failed") EXCEPT
             !.sdk.calPending = ok,
             !.touched = TRUE,
             !.ret = IF ok THEN "true" ELSE "false"]

\* the finished callback startCalibration() registered
calibrationFinished(w) ==
    setState([w EXCEPT !.sdk.calPending = FALSE], "cal", "done")

\* stopTracking()
stopTracking(w) ==
    IF w.mgr.seeso = 0
    THEN w
    ELSE [cancelRestart(w) EXCEPT !.touched = TRUE, !.mgr.tracking = FALSE]

\* deinit()
deinit(w) ==
    LET s == stopTracking(cancelRestart(w))
        d == IF s.mgr.seeso # 0
             THEN [s EXCEPT !.touched = TRUE, !.mgr.seeso = 0]
             ELSE s
    IN  [d EXCEPT !.mgr.initialized = FALSE]

\* the r-th restart in progress leaves the list
endRun(w, r) ==
    [w EXCEPT !.sdk.runs = SubSeq(@, 1, r - 1) \o SubSeq(@, r + 1, Len(@))]

\* _doRestart() without the guard on _isRestarting
doRestartUnguarded(w, cal) ==
    [w EXCEPT !.mgr.isRestarting = TRUE,
              !.mgr.restartCount = @ + 1,
              !.touched = (w.mgr.seeso # 0),
              !.mgr.seeso = 0,
              !.mgr.initialized = FALSE,
              !.mgr.tracking = FALSE,
              !.sdk.runs = Append(@, [pc |-> "wait", cal |-> cal]),
              !.ret = "started"]

\* _doRestart() up to the 1500 ms wait (steps 1 and 2); cal: the SDK had
\* calibration data to back up
doRestart(w, cal) ==
    IF w.mgr.isRestarting
    THEN [w EXCEPT !.ret = "ignored"]
    ELSE [w EXCEPT !.mgr.isRestarting = TRUE,
                   !.mgr.restartCount = @ + 1,
                   !.touched = (w.mgr.seeso # 0),
                   !.mgr.seeso = 0,
                   !.mgr.initialized = FALSE,
                   !.mgr.tracking = FALSE,
                   !.sdk.runs = Append(@, [pc |-> "wait", cal |-> cal]),
                   !.ret = "started"]

\* _doRestart() after the wait: new EasySeeso() and the call of init (step 4)
doRestartAfterWait(w, r, throws) ==
    IF throws
    THEN endRun([w EXCEPT !.mgr.isRestarting = FALSE, !.ret = "failed"], r)
    ELSE [w EXCEPT !.sdk.nInst = @ + 1,
                   !.mgr.seeso = w.sdk.nInst + 1,
                   !.touched = TRUE,
                   !.sdk.runs[r].pc = "init"]

\* _doRestart() after the re-init settled (initOk) up to the await of
\* startTracking (step 5); this._seeso.startTracking throws inside the try when
\* _seeso is null
doRestartAfterInit(w, r, ok) ==
    IF ~ok
    THEN endRun([w EXCEPT !.mgr.isRestarting = FALSE, !.ret = "failed"], r)
    ELSE IF w.mgr.seeso = 0
         THEN endRun([w EXCEPT !.mgr.initialized = TRUE,
                               !.mgr.isRestarting = FALSE,
                               !.ret = "failed"], r)
         ELSE [w EXCEPT !.mgr.initialized = TRUE,
                        !.touched = TRUE,
                        !.sdk.runs[r].pc = "track"]

\* _doRestart() step 7
doRestartComplete(w, r) ==
    scheduleRestart(endRun([w EXCEPT !.mgr.isRestarting = FALSE,
                                     !.ret = "complete"], r))

\* _doRestart() after the await of startTracking: step 6 awaits
\* setCalibrationData when there is calibration data and an SDK object
doRestartAfterTracking(w, r, outcome) ==
    IF outcome # "true"
    THEN endRun([w EXCEPT !.mgr.isRestarting = FALSE, !.ret = "failed"], r)
    ELSE IF w.sdk.runs[r].cal /\ w.mgr.seeso # 0
         THEN [w EXCEPT !.mgr.tracking = TRUE,
                        !.touched = TRUE,
                        !.sdk.runs[r].pc = "cal"]
         ELSE doRestartComplete([w EXCEPT !.mgr.tracking = TRUE], r)

\* what every manager step leaves alone
mgrRest ==
    <<tracking, startTimer, layoutTimer, spans, lineEls, passageIndex,
      detVars, stress>>

\* the handler is over: its effects on the manager and the SDK, and the record
\* of the step; final tells whether the last call of the page into tracking was
\* stopTracking() or deinit()
Commit(w, op, final) ==
    /\ w.sdk.nInst <= MaxInst
    /\ w.sdk.nTimers <= MaxMgrTimers
    /\ mgr' = w.mgr
    /\ sdk' = w.sdk
    /\ mlast' = [mlast EXCEPT !.op = op, !.ret = w.ret,
                              !.touched = w.touched, !.final = final]

\* the same for a call the page makes
CommitCall(w, op, final) ==
    /\ mlast.api < MaxApi
    /\ w.sdk.nInst <= MaxInst
    /\ w.sdk.nTimers <= MaxMgrTimers
    /\ mgr' = w.mgr
    /\ sdk' = w.sdk
    /\ mlast' = [op |-> op, ret |-> w.ret, touched |-> w.touched,
                 final |-> final, api |-> mlast.api + 1]

\* the promise Game.start() awaits is settled: its continuation runs next
StartReady ==
    /\ gstart.pc = "await"
    /\ IF gstart.init = 0
       THEN TRUE
       ELSE sdk.inits[gstart.init].result # "none"

\* Game.start() (btn-start, or restart() from btn-retry) up to
\* await this.seesoMgr.initSDK()
GameStartCall ==
    /\ ~StartReady
    /\ \/ state = "IDLE" /\ gstart.pc = "none"
       \/ state = "SDK_INIT" /\ gstart.pc = "failed"
    /\ Len(sdk.inits) < MaxInits
    /\ \E throws \in BOOLEAN :
         \E w \in {initSDK(World, throws)} :
            /\ Commit(w, "initSDK", FALSE)
            /\ gstart' = [gstart EXCEPT
                            !.pc = "await",
                            !.init = IF w.ret = "true" THEN 0
                                     ELSE Len(w.sdk.inits)]
    /\ state' = "SDK_INIT"
    /\ UNCHANGED mgrRest

\* Game.start() after initSDK() resolved: on false the retry button; on true
\* startTracking(...) without await, setState('CALIBRATION'),
\* _startCalibrationUI() -> startCalibration(...)
GameStartResumes ==
    /\ StartReady
    /\ IF gstart.init # 0 /\ sdk.inits[gstart.init].result = "false"
       THEN /\ gstart' = [gstart EXCEPT !.pc = "failed"]
            /\ UNCHANGED <<mgr, sdk, mlast, state>>
       ELSE \E ok \in BOOLEAN :
              \E t \in {startTracking(World)} :
                \E c \in {startCalibration(t, ok)} :
                   /\ Commit(c, "start", FALSE)
                   /\ gstart' = [gstart EXCEPT
                                   !.pc = "calibrating",
                                   !.calAt = t.mgr.state.tracking]
                   /\ state' = "CALIBRATION"
    /\ UNCHANGED mgrRest

\* the page calls initSDK()
CallInitSDK ==
    /\ ~StartReady
    /\ Len(sdk.inits) < MaxInits
    /\ \E throws \in BOOLEAN :
         \E w \in {initSDK(World, throws)} : CommitCall(w, "initSDK", FALSE)
    /\ UNCHANGED <<gstart, state, mgrRest>>

\* the page calls startTracking(onGaze, onDebug)
CallStartTracking ==
    /\ ~StartReady
    /\ sdk.tracks < MaxTracks
    /\ \E w \in {startTracking(World)} : CommitCall(w, "startTracking", FALSE)
    /\ UNCHANGED <<gstart, state, mgrRest>>

\* the page calls startCalibration(...)
CallStartCalibration ==
    /\ ~StartReady
    /\ \E ok \in BOOLEAN :
         \E w \in {startCalibration(World, ok)} :
            CommitCall(w, "startCalibration", mlast.final)
    /\ UNCHANGED <<gstart, state, mgrRest>>

\* the page calls stopTracking()
CallStopTracking ==
    /\ ~StartReady
    /\ \E w \in {stopTracking(World)} : CommitCall(w, "stopTracking", TRUE)
    /\ UNCHANGED <<gstart, state, mgrRest>>

\* the page calls deinit()
CallDeinit ==
    /\ ~StartReady
    /\ \E w \in {deinit(World)} : CommitCall(w, "deinit", TRUE)
    /\ UNCHANGED <<gstart, state, mgrRest>>

\* the 30 s timer of an initSDK() fires
InitTimeout ==
    /\ ~StartReady
    /\ \E k \in 1..Len(sdk.inits) :
         /\ sdk.inits[k].timer = "pending"
         /\ \E w \in {initTimedOut(World, k)} :
              Commit(w, "initTimeout", mlast.final)
    /\ UNCHANGED <<gstart, state, mgrRest>>

\* the SDK calls afterInitialized of an initSDK()
AfterInitialized ==
    /\ ~StartReady
    /\ \E k \in 1..Len(sdk.inits) :
         /\ sdk.inits[k].sdk = "pending"
         /\ \E w \in {afterInitialized(World, k)} :
              Commit(w, "afterInitialized", mlast.final)
    /\ UNCHANGED <<gstart, state, mgrRest>>

\* the SDK calls afterFailed of an initSDK()
AfterFailed ==
    /\ ~StartReady
    /\ \E k \in 1..Len(sdk.inits) :
         /\ sdk.inits[k].sdk = "pending"
         /\ \E w \in {afterFailed(World, k)} :
              Commit(w, "afterFailed", mlast.final)
    /\ UNCHANGED <<gstart, state, mgrRest>>

\* the promise of the SDK's startTracking settles and startTracking() goes on
TrackingSettles ==
    /\ ~StartReady
    /\ sdk.tracks > 0
    /\ \E outcome \in {"true", "false", "throw"} :
         \E w \in {trackingStarted([World EXCEPT !.sdk.tracks = @ - 1],
                                   outcome)} :
            Commit(w, "trackingStarted", mlast.final)
    /\ UNCHANGED <<gstart, state, mgrRest>>

\* the SDK reports the end of the calibration
CalibrationFinished ==
    /\ ~StartReady
    /\ sdk.calPending
    /\ \E w \in {calibrationFinished(World)} :
         Commit(w, "calibrationFinished", mlast.final)
    /\ UNCHANGED <<gstart, state, mgrRest>>

\* a restart timer fires: _doRestart()
RestartTimer ==
    /\ ~StartReady
    /\ mgr.isRestarting \/ mgr.restartCount < MaxRestarts
    /\ \E id \in sdk.timers :
         \E cal \in (IF mgr.seeso # 0 THEN BOOLEAN ELSE {FALSE}) :
           \E w \in {doRestart([World EXCEPT !.sdk.timers = @ \ {id}], cal)} :
              Commit(w, "doRestart", mlast.final)
    /\ UNCHANGED <<gstart, state, mgrRest>>

\* the 1500 ms of a restart are over
RestartWaitOver ==
    /\ ~StartReady
    /\ \E r \in 1..Len(sdk.runs) :
         /\ sdk.runs[r].pc = "wait"
         /\ \E throws \in BOOLEAN :
              \E w \in {doRestartAfterWait(World, r, throws)} :
                 Commit(w, "doRestartAfterWait", mlast.final)
    /\ UNCHANGED <<gstart, state, mgrRest>>

\* the re-init of a restart settles: a callback of the SDK or the 15 s timer
RestartInitSettles ==
    /\ ~StartReady
    /\ \E r \in 1..Len(sdk.runs) :
         /\ sdk.runs[r].pc = "init"
         /\ \E ok \in BOOLEAN :
              \E w \in {doRestartAfterInit(World, r, ok)} :
                 Commit(w, "doRestartAfterInit", mlast.final)
    /\ UNCHANGED <<gstart, state, mgrRest>>

\* the startTracking of a restart settles
RestartTrackingSettles ==
    /\ ~StartReady
    /\ \E r \in 1..Len(sdk.runs) :
         /\ sdk.runs[r].pc = "track"
         /\ \E outcome \in {"true", "false", "throw"} :
              \E w \in {doRestartAfterTracking(World, r, outcome)} :
                 Commit(w, "doRestartAfterTracking", mlast.final)
    /\ UNCHANGED <<gstart, state, mgrRest>>

\* setCalibrationData of a restart settles, either way
RestartCalibrationSettles ==
    /\ ~StartReady
    /\ \E r \in 1..Len(sdk.runs) :
         /\ sdk.runs[r].pc = "cal"
         /\ \E w \in {doRestartComplete(World, r)} :
              Commit(w, "doRestartComplete", mlast.final)
    /\ UNCHANGED <<gstart, state, mgrRest>>

NextMgr ==
    \/ GameStartCall
    \/ GameStartResumes
    \/ CallInitSDK
    \/ CallStartTracking
    \/ CallStartCalibration
    \/ CallStopTracking
    \/ CallDeinit
    \/ InitTimeout
    \/ AfterInitialized
    \/ AfterFailed
    \/ TrackingSettles
    \/ CalibrationFinished
    \/ RestartTimer
    \/ RestartWaitOver
    \/ RestartInitSettles
    \/ RestartTrackingSettles
    \/ RestartCalibrationSettles

SpecMgr == InitAny /\ [][NextMgr]_vars

\* ---------------------------------------------------------------------------
\* Claims about the SeesoManager
\* ---------------------------------------------------------------------------

\* C31: Game.start() calls startCalibration() only after startTracking() has
\* resolved with the camera ready: at that call the manager's tracking state is
\* 'running'.
C31_CalibrationAfterTracking ==
    gstart.pc = "calibrating" => gstart.calAt = "running"

\* Game.start() has called startCalibration() while the manager was still
\* waiting for the camera, and the camera came up only afterwards
C31_CalibratedWhileStarting ==
    /\ gstart.pc = "calibrating"
    /\ gstart.calAt = "starting"
    /\ mlast.op = "trackingStarted"
    /\ mgr.state.tracking = "running"

\* the page has just called startTracking() or startCalibration() on a manager
\* whose SDK was not initialized
C32_CalledUninitialized ==
    /\ mlast'.api = mlast.api + 1
    /\ mlast'.op \in {"startTracking", "startCalibration"}
    /\ (mgr.seeso = 0 \/ ~mgr.initialized)

C32_Step ==
    C32_CalledUninitialized =>
        /\ mlast'.ret = "false"
        /\ ~mlast'.touched
        /\ sdk' = sdk
        /\ mgr' = mgr

\* C32: startTracking() and startCalibration() called while the SDK is not
\* initialized return false, make no call into the SDK, schedule no restart
\* timer and leave the manager's state object (and every other field) as it
\* was.
C32_GuardedWhenUninitialized == [][C32_Step]_vars

\* startTracking() has returned false while initSDK() was still loading the
\* SDK on an iOS device
C32_Witness ==
    /\ mlast.op = "startTracking"
    /\ mlast.ret = "false"
    /\ mgr.seeso # 0
    /\ mgr.state.sdk = "loading"
    /\ mgr.isIOS

\* startCalibration() has returned false after deinit() of an initialized SDK
C32_WitnessCalibration ==
    /\ mlast.op = "startCalibration"
    /\ mlast.ret = "false"
    /\ mgr.seeso = 0
    /\ mgr.state.sdk = "initialized"

\* the promise of the k-th initSDK() is resolved with true only by
\* afterInitialized arriving while the 30 s timer was pending
C33_TrueByFirstEvent ==
    \A k \in 1..Len(sdk.inits) :
        sdk.inits[k].result = "true" =>
            sdk.inits[k].sdk = "done" /\ sdk.inits[k].timer = "cleared"

\* initSDK() has been called once, has resolved false and has not been called
\* again
C33_LastResolvedFalse ==
    /\ Len(sdk.inits) = 1
    /\ sdk.inits[1].result = "false"

\* C33: initSDK() resolves once, with true exactly when afterInitialized
\* arrives before the timeout, a failure callback or an exception; whenever it
\* has resolved false and has not been called again, the manager is not
\* initialized and its sdk state is 'failed', under every ordering of the
\* timeout and the SDK callbacks.
C33_FailedStaysFailed ==
    /\ C33_TrueByFirstEvent
    /\ C33_LastResolvedFalse =>
           ~mgr.initialized /\ mgr.state.sdk = "failed"

\* the only initSDK() timed out and resolved false, and the SDK's late
\* afterInitialized has made the manager initialized all the same
C33_LateInitialized ==
    /\ Len(sdk.inits) = 1
    /\ sdk.inits[1].timer = "fired"
    /\ sdk.inits[1].result = "false"
    /\ mlast.op = "afterInitialized"
    /\ mgr.initialized
    /\ mgr.state.sdk = "initialized"

\* at most one restart in progress, at most one restart timer pending, and
\* _isRestarting set exactly while a restart is in progress
C34_OneAtATime ==
    /\ Len(sdk.runs) <= 1
    /\ Cardinality(sdk.timers) <= 1
    /\ mgr.isRestarting <=> (Len(sdk.runs) = 1)

\* a _doRestart() invoked while another is in progress changes nothing, and a
\* _doRestart() that returns leaves _isRestarting false
C34_Step ==
    /\ (mlast'.op = "doRestart" /\ Len(sdk.runs) > 0) =>
          /\ mlast'.ret = "ignored"
          /\ ~mlast'.touched
          /\ mgr' = mgr
          /\ sdk'.runs = sdk.runs
          /\ sdk'.nInst = sdk.nInst
    /\ Len(sdk'.runs) < Len(sdk.runs) => ~mgr'.isRestarting

\* C34: periodic SDK restarts never overlap: a _doRestart() invoked while
\* another is in progress returns without touching the SDK or the manager, at
\* most one restart timer is pending at any time, and every _doRestart() that
\* starts leaves _isRestarting false when it ends, on its success path and on
\* each of its failure paths.
C34_RestartsNeverOverlap == [](C34_OneAtATime) /\ [][C34_Step]_vars

\* a restart timer has fired while a restart was waiting for its
\* startTracking, and _doRestart() has returned at once
C34_Witness ==
    /\ mlast.op = "doRestart"
    /\ mlast.ret = "ignored"
    /\ Len(sdk.runs) = 1
    /\ mgr.restartCount = 1

\* a second restart has completed and has scheduled the next one
C34_WitnessComplete ==
    /\ mlast.op \in {"doRestartComplete", "doRestartAfterTracking"}
    /\ mlast.ret = "complete"
    /\ mgr.restartCount = 2
    /\ ~mgr.isRestarting
    /\ Cardinality(sdk.timers) = 1

\* the steps of the restart cycle
C35_RestartOps ==
    {"doRestart", "doRestartAfterWait", "doRestartAfterInit",
     "doRestartAfterTracking", "doRestartComplete"}

\* after stopTracking() or deinit() returned and before the page calls
\* startTracking() or initSDK() again, no restart step runs and no restart
\* timer is pending
C35_Step ==
    (mlast.final /\ mlast'.final) =>
        /\ mlast'.op \notin C35_RestartOps
        /\ sdk'.timers = {}

\* C35: stopTracking() and deinit() are final with respect to the restart
\* cycle: after either returns, no restart step runs and no restart timer is
\* pending until startTracking() or initSDK() is called again, also when the
\* call arrives while a _doRestart() waits in its 1500 ms or re-init phase.
C35_StopIsFinal == [][C35_Step]_vars

\* stopTracking() was called during the 1500 ms wait of a restart; the restart
\* has gone on all the same and has brought tracking back with a new timer
C35_RestartedAfterStop ==
    /\ mlast.final
    /\ mlast.op \in {"doRestartComplete", "doRestartAfterTracking"}
    /\ mlast.ret = "complete"
    /\ mgr.tracking
    /\ sdk.timers # {}

\* C36: the manager's two views of tracking agree in every reachable state:
\* getState().tracking is 'running' if and only if isTracking() is true.
C36_TrackingViewsAgree ==
    (mgr.state.tracking = "running") <=> mgr.tracking

\* stopTracking() has returned on a tracking manager: isTracking() is false
\* and getState().tracking still says 'running'
C36_StoppedButRunning ==
    /\ mlast.op = "stopTracking"
    /\ mlast.touched
    /\ ~mgr.tracking
    /\ mgr.state.tracking = "running"

\* ---------------------------------------------------------------------------
\* MemoryStressTester (src/stress-tester.js)
\*
\* stress.buffers is _buffers.length, stress.timerId whether _timerId is set,
\* stress.live whether the timeout it names is still pending, stress.timers
\* the number of pending timeouts, stress.op the last handler that ran.
\* Whether new ArrayBuffer() throws is open.
\* ---------------------------------------------------------------------------

CHUNK_MB == 10
MAX_LEVEL == 30

\* totalAllocMB(), which getTotalMB() returns
totalAllocMB(s) == s.level * CHUNK_MB

\* _stop(): _running = false, clearTimeout(_timerId) if it is set
stopTest(s) ==
    IF s.timerId
    THEN [s EXCEPT !.running = FALSE,
                   !.timers = IF s.live THEN @ - 1 ELSE @,
                   !.live = FALSE,
                   !.timerId = FALSE]
    ELSE [s EXCEPT !.running = FALSE]

\* _runLevel() without the check of MAX_LEVEL
runLevelUncapped(s, fails) ==
    IF ~s.running
    THEN s
    ELSE IF s.level > 0 /\ fails
         THEN stopTest(s)
         ELSE [s EXCEPT !.buffers = IF s.level > 0 THEN @ + 1 ELSE @,
                        !.timerId = TRUE,
                        !.live = TRUE,
                        !.timers = @ + 1]

\* _runLevel(); fails: new ArrayBuffer() throws
runLevel(s, fails) ==
    IF ~s.running
    THEN s
    ELSE IF s.level > MAX_LEVEL
         THEN stopTest(s)
         ELSE IF s.level > 0 /\ fails
              THEN stopTest(s)
              ELSE [s EXCEPT !.buffers = IF s.level > 0 THEN @ + 1 ELSE @,
                             !.timerId = TRUE,
                             !.live = TRUE,
                             !.timers = @ + 1]

\* start(onUpdate)
start(s, fails) ==
    IF s.running
    THEN s
    ELSE runLevel([s EXCEPT !.buffers = 0, !.level = 0, !.running = TRUE],
                  fails)

\* stop()
stop(s) == [stopTest(s) EXCEPT !.buffers = 0]

\* the callback of the OBSERVE_SEC timeout: _level++, then _runLevel() if
\* still running
levelObserved(s, fails) ==
    LET n == [s EXCEPT !.timers = @ - 1, !.live = FALSE, !.level = @ + 1]
    IN  IF n.running THEN runLevel(n, fails) ELSE n

\* what the stress tester leaves alone
stressRest == <<gameVars, detVars, mgrVars>>

\* the page calls MemoryStressTester.start()
StressStart ==
    /\ \E fails \in BOOLEAN :
         stress' = [start(stress, fails) EXCEPT !.op = "start"]
    /\ UNCHANGED stressRest

\* the page calls MemoryStressTester.stop()
StressStop ==
    /\ stress' = [stop(stress) EXCEPT !.op = "stop"]
    /\ UNCHANGED stressRest

\* a pending timeout of the tester fires
StressTimer ==
    /\ stress.timers > 0
    /\ \E fails \in BOOLEAN :
         stress' = [levelObserved(stress, fails) EXCEPT !.op = "timer"]
    /\ UNCHANGED stressRest

NextStress == StressStart \/ StressStop \/ StressTimer

SpecStress == Init /\ [][NextStress]_vars

\* the browser runs a timeout that is due
SpecStressFair == SpecStress /\ WF_vars(StressTimer)

\* ---------------------------------------------------------------------------
\* Claims about the MemoryStressTester
\* ---------------------------------------------------------------------------

\* at most MAX_LEVEL chunks, never more than 300 MB, one timeout at a time
C37_Bounded ==
    /\ stress.buffers <= MAX_LEVEL
    /\ stress.buffers * CHUNK_MB <= 300
    /\ stress.timers <= 1
    /\ stress.timers = 1 => stress.running

\* start() while a test is running changes nothing
C37_Step ==
    (stress'.op = "start" /\ stress.running) =>
        stress' = [stress EXCEPT !.op = "start"]

\* the test is over: not running, no timeout pending
C37_Stopped == ~stress.running /\ stress.timers = 0

\* C37: a started memory stress test holds at most MAX_LEVEL (30) chunks of
\* 10 MB, never more than 300 MB; start() while a test is running changes
\* nothing; and as long as its timeout keeps firing, a running test eventually
\* stops (isRunning() false, no timeout pending), by itself if neither stop()
\* is called nor an allocation fails.
C37_BoundedAndStops ==
    /\ [](C37_Bounded)
    /\ [][C37_Step]_vars
    /\ (stress.running ~> C37_Stopped)

\* the test has run through all levels and has stopped itself with 30 chunks
C37_Witness ==
    /\ stress.op = "timer"
    /\ C37_Stopped
    /\ stress.buffers = MAX_LEVEL
    /\ stress.level = MAX_LEVEL + 1

\* start() was called on a running test that was past level 0
C37_WitnessStart ==
    /\ stress.op = "start"
    /\ stress.running
    /\ stress.level > 0
    /\ stress.buffers = stress.level

\* C38: whenever no stress-tester code is executing, getTotalMB() equals 10 MB
\* times the number of buffers the tester holds, including after the test
\* stopped at MAX_LEVEL, after an allocation failure and after stop().
C38_TotalIsHeld ==
    totalAllocMB(stress) = CHUNK_MB * stress.buffers

\* while a test runs, getTotalMB() is what the tester holds
C38_TotalIsHeldWhileRunning ==
    stress.running => totalAllocMB(stress) = CHUNK_MB * stress.buffers

\* the test stopped itself at MAX_LEVEL: 300 MB held, getTotalMB() is 310
C38_StoppedAtMax ==
    /\ stress.op = "timer"
    /\ ~stress.running
    /\ stress.buffers = MAX_LEVEL
    /\ totalAllocMB(stress) = CHUNK_MB * MAX_LEVEL + CHUNK_MB

\* the allocation of level 3 failed: 20 MB held, getTotalMB() is 30
C38_AllocationFailed ==
    /\ stress.op = "timer"
    /\ ~stress.running
    /\ stress.buffers = 2
    /\ totalAllocMB(stress) = 30

\* stop() at level 3: nothing held, getTotalMB() is 30
C38_AfterStop ==
    /\ stress.op = "stop"
    /\ stress.buffers = 0
    /\ totalAllocMB(stress) = 30

====
